---- MODULE Spec2Model ----
(***************************************************************************)
(* Insurance claims processor: the pipeline of app.py (text extraction,    *)
(* field extraction, validation, routing, claim store), the rule engine    *)
(* and the LLM adapter (agents/llm_processor.py), the validator            *)
(* (agents/validator.py) and the router (agents/router.py), with the       *)
(* Python helpers they rely on (str.lower, str.strip, str.replace,         *)
(* str.split, str.join, float(), format(x, ',.0f'), re.search, re.sub,     *)
(* re.split) computed character by character.                              *)
(*                                                                         *)
(* A field value is None or a Python str: [some |-> FALSE, s |-> ""] is    *)
(* None and [some |-> TRUE, s |-> x] is the str x (so "" and None differ). *)
(* A value of another type, which only the LLM adapter stores, also has    *)
(* the fields type and truthy; its s is the text str() gives for it.       *)
(* A field set is the nested dict of get_empty_fields: section -> field -> *)
(* value.                                                                  *)
(***************************************************************************)
EXTENDS Integers, Sequences, FiniteSets, TLC

VARIABLES
    extracted_fields,   \* the field set handed to validate / route
    missing_fields,     \* the missing list (validate's result, route's argument)
    inconsistencies,    \* validate's second result
    recommendedRoute,   \* route's first result ("" before route has returned)
    reasoning,          \* route's second result
    now,                \* the day datetime.now() reads during validate: [y, m, d]
    pc,                 \* "idle" | "call" (route called directly) | "text" | "extracted" |
                        \* "validated" | "routed" | "done" | "failed"
    document,           \* the file at filepath the run was started with
    api_key,            \* LLMProcessor.api_key: "" when OPENAI_API_KEY is not set
    llm_response,       \* what the chat completion call of this run comes back with
    raw_text,           \* the text step 1 extracted
    claim_id,           \* the claim id of the run
    failure,            \* the exception that ended the run, and the step it left
    processed_claims,   \* the claim store: claim id -> claim record
    key_order,          \* the keys of the claim store in the order the dict holds them
    claims_list,        \* the last answer of get_claims
    submissions,        \* runs of _run_pipeline started so far
    callers             \* the runs of _run_pipeline under way in the threads of the server

vars == <<extracted_fields, missing_fields, inconsistencies, recommendedRoute, reasoning, now, pc,
          document, api_key, llm_response, raw_text, claim_id, failure, processed_claims,
          key_order, claims_list, submissions, callers>>

\* What a run was started with.
request == <<document, api_key, llm_response, claim_id, submissions>>

\* What outlives a run.
store == <<processed_claims, key_order, claims_list>>

\* ---------------------------------------------------------------- bounds

\* Longest missing-fields list the router is called with directly.
MaxMissing == 2

\* Damage amounts FAST_TRACK_THRESHOLD - MaxDelta .. FAST_TRACK_THRESHOLD + MaxDelta
\* are drawn as digit strings for the router, besides the hand-picked strings.
MaxDelta == 2

\* Amounts 0, 50, .., 50 * MaxUnits are drawn as digit strings for the validator,
\* besides the hand-picked strings.
MaxUnits == 4

\* Runs of _run_pipeline one behaviour of the application starts.
MaxSubmissions == 3

\* Raw texts of 500 - MaxOver .. 500 + MaxOver characters are drawn for the
\* preview of the claim record.
MaxOver == 4

\* ---------------------------------------------------------------- values

None == [some |-> FALSE, s |-> ""]

Str(x) == [some |-> TRUE, s |-> x]

\* isinstance(value, str)
IsStr(v) == v.some /\ "type" \notin DOMAIN v

\* A value that is neither None nor a str: a number, a bool, a list or a dict,
\* with the text str() gives for it and its truthiness.
Other(type, text, truthy) == [some |-> TRUE, s |-> text, type |-> type, truthy |-> truthy]

\* Python truthiness, `if value:`.
Truthy(v) == v.some /\ (IF IsStr(v) THEN v.s # "" ELSE v.truthy)

\* `value or ""`.
OrEmpty(v) == IF Truthy(v) THEN v.s ELSE ""

\* fields[section][key] = value
With(fields, section, key, value) == [fields EXCEPT ![section][key] = value]

\* The one element of a set of one element: `The({ e : x \in { v } })` is e with
\* x standing for the value of v, worked out once.
The(values) == CHOOSE v \in values : TRUE

\* ---------------------------------------------------------------- str helpers

Char(s, i) == SubSeq(s, i, i)

UpperAlpha == "ABCDEFGHIJKLMNOPQRSTUVWXYZ"

LowerAlpha == "abcdefghijklmnopqrstuvwxyz"

Digits == "0123456789"

DigitSet == { Char(Digits, i) : i \in 1..10 }

DigitOf == [c \in DigitSet |-> (CHOOSE i \in 1..10 : Char(Digits, i) = c) - 1]

IsDigit(c) == c \in DigitSet

DigitVal(c) == DigitOf[c]

UpperSet == { Char(UpperAlpha, i) : i \in 1..26 }

LowerOf == [c \in UpperSet |-> Char(LowerAlpha, CHOOSE i \in 1..26 : Char(UpperAlpha, i) = c)]

\* str.lower() on one character (ASCII letters; any other character is kept).
LowerChar(c) == IF c \in UpperSet THEN LowerOf[c] ELSE c

\* str.lower(), a half of the string at a time.
RECURSIVE Lower(_)
Lower(s) ==
    IF Len(s) <= 1 THEN LowerChar(s)
    ELSE Lower(SubSeq(s, 1, Len(s) \div 2)) \o Lower(SubSeq(s, Len(s) \div 2 + 1, Len(s)))

\* `kw in s` for strings.
Contains(s, kw) ==
    \E i \in 1..(Len(s) - Len(kw) + 1) : SubSeq(s, i, i + Len(kw) - 1) = kw

IsSpace(c) == c \in {" ", "\t", "\n", "\r"}

RECURSIVE LStrip(_)
LStrip(s) == IF s # "" /\ IsSpace(Char(s, 1)) THEN LStrip(SubSeq(s, 2, Len(s))) ELSE s

RECURSIVE RStrip(_)
RStrip(s) == IF s # "" /\ IsSpace(Char(s, Len(s))) THEN RStrip(SubSeq(s, 1, Len(s) - 1)) ELSE s

\* str.strip()
Strip(s) == RStrip(LStrip(s))

\* str.replace(old, ''): every non-overlapping occurrence, left to right.
RECURSIVE Remove(_, _)
Remove(s, old) ==
    IF Len(s) < Len(old) THEN s
    ELSE IF SubSeq(s, 1, Len(old)) = old THEN Remove(SubSeq(s, Len(old) + 1, Len(s)), old)
    ELSE Char(s, 1) \o Remove(SubSeq(s, 2, Len(s)), old)

\* sep.join(parts)
RECURSIVE Join(_, _)
Join(parts, sep) ==
    IF parts = <<>> THEN ""
    ELSE IF Len(parts) = 1 THEN parts[1]
    ELSE parts[1] \o sep \o Join(Tail(parts), sep)

\* s.split('.')[-1]: the text after the last '.', the whole of s without one.
RECURSIVE LastDotPart(_)
LastDotPart(s) ==
    IF \E i \in 1..Len(s) : Char(s, i) = "."
    THEN LastDotPart(SubSeq(s, (CHOOSE i \in 1..Len(s) : Char(s, i) = ".") + 1, Len(s)))
    ELSE s

\* ---------------------------------------------------------------- float()

(* A Python float as far as the validator and the router use it:           *)
(*   kind "num": the value (-1)^neg * m * 10^e, kept exact;                *)
(*   kind "inf": +-infinity; kind "nan"; kind "error": float() raised      *)
(*   ValueError.                                                           *)
(* The model's integers are 32 bits wide, so the strings drawn keep m and  *)
(* the scaled comparisons below 2^31; on such short decimals the double    *)
(* comparisons of the code agree with the exact ones.                      *)
Float(kind, neg, m, e) == [kind |-> kind, neg |-> neg, m |-> m, e |-> e]

ValueError == Float("error", FALSE, 0, 0)

RECURSIVE Pow10(_)
Pow10(n) == IF n <= 0 THEN 1 ELSE 10 * Pow10(n - 1)

AllDigits(s) == \A i \in 1..Len(s) : IsDigit(Char(s, i))

RECURSIVE DigitsVal(_)
DigitsVal(s) == IF s = "" THEN 0 ELSE DigitsVal(SubSeq(s, 1, Len(s) - 1)) * 10 + DigitVal(Char(s, Len(s)))

\* An underscore is accepted only between two digits.
UnderscoresOk(s) ==
    \A i \in 1..Len(s) : Char(s, i) = "_" =>
        /\ i > 1 /\ IsDigit(Char(s, i - 1))
        /\ i < Len(s) /\ IsDigit(Char(s, i + 1))

FirstIndex(s, cs) == CHOOSE i \in 1..Len(s) : Char(s, i) \in cs /\ \A j \in 1..(i - 1) : Char(s, j) \notin cs

HasChar(s, cs) == \E i \in 1..Len(s) : Char(s, i) \in cs

\* [+-]?digits+ , the exponent after 'e'; "error" when malformed.
ParseExponent(s) ==
    LET signed == s # "" /\ Char(s, 1) \in {"+", "-"}
        body == IF signed THEN SubSeq(s, 2, Len(s)) ELSE s
    IN  IF body = "" \/ ~AllDigits(body) THEN [ok |-> FALSE, v |-> 0]
        ELSE [ok |-> TRUE, v |-> IF signed /\ Char(s, 1) = "-" THEN 0 - DigitsVal(body) ELSE DigitsVal(body)]

\* digits* ('.' digits*)? with at least one digit, then ([eE] exponent)?
ParseDecimal(neg, s) ==
    LET hasE == HasChar(s, {"e", "E"})
        ePos == IF hasE THEN FirstIndex(s, {"e", "E"}) ELSE Len(s) + 1
        mant == SubSeq(s, 1, ePos - 1)
        ex   == IF hasE THEN ParseExponent(SubSeq(s, ePos + 1, Len(s))) ELSE [ok |-> TRUE, v |-> 0]
        hasDot == HasChar(mant, {"."})
        dPos == IF hasDot THEN FirstIndex(mant, {"."}) ELSE Len(mant) + 1
        ip   == SubSeq(mant, 1, dPos - 1)
        fp   == SubSeq(mant, dPos + 1, Len(mant))
    IN  IF ~ex.ok \/ ~AllDigits(ip) \/ ~AllDigits(fp) \/ Len(ip) + Len(fp) = 0
        THEN ValueError
        ELSE Float("num", neg, DigitsVal(ip \o fp), ex.v - Len(fp))

\* float(s) for a str s.
ParseFloat(s) ==
    LET t == Strip(s)
        signed == t # "" /\ Char(t, 1) \in {"+", "-"}
        neg == signed /\ Char(t, 1) = "-"
        body == IF signed THEN SubSeq(t, 2, Len(t)) ELSE t
    IN  IF ~UnderscoresOk(t) THEN ValueError
        ELSE IF Lower(body) \in {"inf", "infinity"} THEN Float("inf", neg, 0, 0)
        ELSE IF Lower(body) = "nan" THEN Float("nan", neg, 0, 0)
        ELSE ParseDecimal(neg, Remove(body, "_"))

\* The integer n as a float.
FromInt(n) == Float("num", n < 0, IF n < 0 THEN 0 - n ELSE n, 0)

\* a and b (kind "num") as integers over a common power of ten.
Scaled(a, k) == (IF a.neg THEN -1 ELSE 1) * a.m * Pow10(a.e - k)

MinExp(a, b) == IF a.e < b.e THEN a.e ELSE b.e

\* a < b on floats (IEEE: every comparison with nan is false).
FloatLT(a, b) ==
    CASE a.kind = "nan" \/ b.kind = "nan" -> FALSE
      [] a.kind = "inf" /\ b.kind = "inf" -> a.neg /\ ~b.neg
      [] a.kind = "inf" -> a.neg
      [] b.kind = "inf" -> ~b.neg
      [] OTHER -> Scaled(a, MinExp(a, b)) < Scaled(b, MinExp(a, b))

\* a == b on floats.
FloatEQ(a, b) ==
    CASE a.kind = "nan" \/ b.kind = "nan" -> FALSE
      [] a.kind = "inf" /\ b.kind = "inf" -> a.neg = b.neg
      [] a.kind = "inf" \/ b.kind = "inf" -> FALSE
      [] OTHER -> Scaled(a, MinExp(a, b)) = Scaled(b, MinExp(a, b))

\* ---------------------------------------------------------------- format

\* A non-negative integer with ',' between groups of three digits (format spec ',').
RECURSIVE Grouped(_)
Grouped(n) ==
    IF n < 1000 THEN ToString(n)
    ELSE LET r == n % 1000
         IN Grouped(n \div 1000) \o "," \o
            (IF r < 10 THEN "00" ELSE IF r < 100 THEN "0" ELSE "") \o ToString(r)

\* |x| rounded to an integer, ties to even (format spec '.0f').
RoundHalfEven(x) ==
    IF x.e >= 0 THEN x.m * Pow10(x.e)
    ELSE LET d == Pow10(0 - x.e)
             q == x.m \div d
             r == x.m % d
         IN IF 2 * r > d \/ (2 * r = d /\ q % 2 = 1) THEN q + 1 ELSE q

\* f"{x:,.0f}"
FormatAmount(x) ==
    CASE x.kind = "nan" -> "nan"
      [] x.kind = "inf" -> (IF x.neg THEN "-" ELSE "") \o "inf"
      [] OTHER -> (IF x.neg THEN "-" ELSE "") \o Grouped(RoundHalfEven(x))

\* ---------------------------------------------------------------- schema

\* The key order of the dict get_empty_fields returns.
SECTIONS == <<"policyInformation", "incidentInformation", "involvedParties", "assetDetails", "otherFields">>

get_empty_fields ==
    [ policyInformation   |-> [policyNumber |-> None, policyholderName |-> None, effectiveDates |-> None],
      incidentInformation |-> [date |-> None, time |-> None, location |-> None, description |-> None],
      involvedParties     |-> [claimant |-> None, thirdParties |-> None, contactDetails |-> None],
      assetDetails        |-> [assetType |-> None, assetId |-> None, estimatedDamage |-> None],
      otherFields         |-> [claimType |-> None, attachments |-> None, initialEstimate |-> None] ]

\* Fault: every slot of the schema is required.
MANDATORY_FIELDS_AllSlots ==
    << <<"policyInformation",   <<"policyNumber", "policyholderName", "effectiveDates">> >>,
       <<"incidentInformation", <<"date", "time", "location", "description">> >>,
       <<"involvedParties",     <<"claimant", "thirdParties", "contactDetails">> >>,
       <<"assetDetails",        <<"assetType", "assetId", "estimatedDamage">> >>,
       <<"otherFields",         <<"claimType", "attachments", "initialEstimate">> >> >>

\* Fault: the estimated damage is not required.
MANDATORY_FIELDS_NoDamage ==
    << <<"policyInformation",   <<"policyNumber", "policyholderName", "effectiveDates">> >>,
       <<"incidentInformation", <<"date", "time", "location", "description">> >>,
       <<"involvedParties",     <<"claimant", "contactDetails">> >>,
       <<"assetDetails",        <<"assetType", "assetId">> >>,
       <<"otherFields",         <<"claimType", "initialEstimate">> >> >>

\* The dict MANDATORY_FIELDS in insertion order: <<section, required keys>>.
MANDATORY_FIELDS ==
    << <<"policyInformation",   <<"policyNumber", "policyholderName", "effectiveDates">> >>,
       <<"incidentInformation", <<"date", "time", "location", "description">> >>,
       <<"involvedParties",     <<"claimant", "contactDetails">> >>,
       <<"assetDetails",        <<"assetType", "assetId", "estimatedDamage">> >>,
       <<"otherFields",         <<"claimType", "initialEstimate">> >> >>

\* fields.get(section, {}).get(key)
Get(fields, section, key) == fields[section][key]

\* The rupee sign U+20B9. The model's strings are ASCII: '#', which no string
\* drawn uses otherwise, stands for it, in the inputs and in the messages.
Rupee == "#"

\* float(str(x).replace(',', '').replace(RUPEE SIGN, '').replace('Rs', '').strip())
ToAmount(s) == ParseFloat(Strip(Remove(Remove(Remove(s, ","), Rupee), "Rs")))

\* ---------------------------------------------------------------- re

\* A regular expression as a tree, one node per construct of the pattern text.
Lit(s) == [op |-> "lit", s |-> s, ic |-> FALSE]

\* [...]
Cls(chars) == [op |-> "set", chars |-> chars]

\* .
Dot == [op |-> "dot"]

\* [\s\S], and . under re.DOTALL
AnyChar == [op |-> "any"]

Cat(items) == [op |-> "seq", items |-> items]

\* a|b|...
Alt(items) == [op |-> "alt", items |-> items]

Inf == 0 - 1

\* x{min,max}, greedy or lazy; max = Inf for no upper limit.
Rep(item, min, max, lazy) == [op |-> "rep", item |-> item, min |-> min, max |-> max, lazy |-> lazy]

Star(x) == Rep(x, 0, Inf, FALSE)

Plus(x) == Rep(x, 1, Inf, FALSE)

Opt(x) == Rep(x, 0, 1, FALSE)

LazyStar(x) == Rep(x, 0, Inf, TRUE)

LazyPlus(x) == Rep(x, 1, Inf, TRUE)

\* x{n}
Times(x, n) == Rep(x, n, n, FALSE)

\* x{n,}
AtLeast(x, n) == Rep(x, n, Inf, FALSE)

\* (x), the n-th capturing group
Grp(n, item) == [op |-> "grp", n |-> n, item |-> item]

\* (?=x)
Ahead(item) == [op |-> "look", item |-> item]

\* $ without re.MULTILINE: at the end, or before a newline that ends the text
EndOfText == [op |-> "end"]

\* \Z
EndZ == [op |-> "Z"]

LetterSet == UpperSet \cup { LowerOf[c] : c \in UpperSet }

UpperOf == [c \in { LowerOf[u] : u \in UpperSet } |-> CHOOSE u \in UpperSet : LowerOf[u] = c]

UpperChar(c) == IF c \in DOMAIN UpperOf THEN UpperOf[c] ELSE c

\* \d
Digit == Cls(DigitSet)

\* \w
WordSet == LetterSet \cup DigitSet \cup {"_"}

Word == Cls(WordSet)

\* \s
SpaceSet == {" ", "\t", "\n", "\r", "\f"}

Space == Cls(SpaceSet)

\* A pattern compiled with re.IGNORECASE.
RECURSIVE IgnoreCase(_)
IgnoreCase(r) ==
    CASE r.op = "lit" -> [r EXCEPT !.s = Lower(r.s), !.ic = TRUE]
      [] r.op = "set" -> [r EXCEPT !.chars = r.chars \cup { LowerChar(c) : c \in r.chars }
                                                     \cup { UpperChar(c) : c \in r.chars }]
      [] r.op \in {"seq", "alt"} -> [r EXCEPT !.items = [i \in 1..Len(r.items) |-> IgnoreCase(r.items[i])]]
      [] r.op \in {"rep", "grp", "look"} -> [r EXCEPT !.item = IgnoreCase(r.item)]
      [] OTHER -> r

\* A pattern compiled with re.DOTALL.
RECURSIVE DotAll(_)
DotAll(r) ==
    CASE r.op = "dot" -> AnyChar
      [] r.op \in {"seq", "alt"} -> [r EXCEPT !.items = [i \in 1..Len(r.items) |-> DotAll(r.items[i])]]
      [] r.op \in {"rep", "grp", "look"} -> [r EXCEPT !.item = DotAll(r.item)]
      [] OTHER -> r

\* The subject of a match: the text, its lower-case form, its length.
Subject(text) == [t |-> text, lt |-> Lower(text), n |-> Len(text)]

NoGroups == [g \in 1..2 |-> <<0, 0>>]

NoMatch == [ok |-> FALSE, start |-> 0, end |-> 0, groups |-> NoGroups]

\* The character at pos is one the one-character node r accepts.
Accepts(cx, r, pos) ==
    /\ pos <= cx.n
    /\ CASE r.op = "set" -> Char(cx.t, pos) \in r.chars
         [] r.op = "dot" -> Char(cx.t, pos) # "\n"
         [] OTHER        -> TRUE

\* How many characters from pos on, limit at most, the one-character node r accepts in a row.
RunLen(cx, r, pos, limit) ==
    CHOOSE k \in 0..limit :
        /\ k = limit \/ ~Accepts(cx, r, pos + k)
        /\ \A j \in 0..(k - 1) : Accepts(cx, r, pos + j)

RECURSIVE Match(_, _, _, _)

\* A repeat of a one-character node that can take from least to most characters:
\* the run lengths after which the rest of the pattern matches.
Runs(cx, rest, pos, groups, least, most) ==
    { k \in least..most : Match(cx, rest, pos + k, groups).ok }

\* A greedy repeat takes the longest of them.
Longest(cx, rest, pos, groups, least, most) ==
    LET runs == Runs(cx, rest, pos, groups, least, most)
    IN IF runs = {} THEN NoMatch
       ELSE Match(cx, rest, pos + (CHOOSE k \in runs : \A j \in runs : j <= k), groups)

\* A lazy repeat takes the shortest of them.
Shortest(cx, rest, pos, groups, least, most) ==
    LET runs == Runs(cx, rest, pos, groups, least, most)
    IN IF runs = {} THEN NoMatch
       ELSE Match(cx, rest, pos + (CHOOSE k \in runs : \A j \in runs : k <= j), groups)

\* The backtracking matcher: the nodes still to match (todo) from position pos,
\* alternatives tried in the order of the pattern, a greedy repeat longest
\* first, a lazy one shortest first. The first way that succeeds is the match.
Match(cx, todo, pos, groups) ==
    IF todo = <<>> THEN [ok |-> TRUE, start |-> 0, end |-> pos, groups |-> groups]
    ELSE LET r == Head(todo)
             rest == Tail(todo)
         IN CASE r.op = "lit" ->
                   IF pos + Len(r.s) - 1 <= cx.n
                      /\ SubSeq(IF r.ic THEN cx.lt ELSE cx.t, pos, pos + Len(r.s) - 1) = r.s
                   THEN Match(cx, rest, pos + Len(r.s), groups) ELSE NoMatch
              [] r.op = "set" ->
                   IF pos <= cx.n /\ Char(cx.t, pos) \in r.chars
                   THEN Match(cx, rest, pos + 1, groups) ELSE NoMatch
              [] r.op = "dot" ->
                   IF pos <= cx.n /\ Char(cx.t, pos) # "\n"
                   THEN Match(cx, rest, pos + 1, groups) ELSE NoMatch
              [] r.op = "any" ->
                   IF pos <= cx.n THEN Match(cx, rest, pos + 1, groups) ELSE NoMatch
              [] r.op = "seq" -> Match(cx, r.items \o rest, pos, groups)
              [] r.op = "alt" ->
                   IF r.items = <<>> THEN NoMatch
                   ELSE LET first == Match(cx, << Head(r.items) >> \o rest, pos, groups)
                        IN IF first.ok THEN first
                           ELSE Match(cx, << Alt(Tail(r.items)) >> \o rest, pos, groups)
              [] r.op = "rep" ->
                   LET more == Rep(r.item, IF r.min > 0 THEN r.min - 1 ELSE 0,
                                   IF r.max > 0 THEN r.max - 1 ELSE r.max, r.lazy)
                       take == Match(cx, << r.item, more >> \o rest, pos, groups)
                       skip == Match(cx, rest, pos, groups)
                       run == RunLen(cx, r.item, pos, IF r.max = Inf THEN cx.n ELSE r.max)
                   IN IF r.item.op \in {"set", "dot", "any"}
                      THEN (IF run < r.min THEN NoMatch
                            ELSE IF r.lazy THEN Shortest(cx, rest, pos, groups, r.min, run)
                            ELSE Longest(cx, rest, pos, groups, r.min, run))
                      ELSE IF r.min > 0 THEN take
                      ELSE IF r.max = 0 THEN skip
                      ELSE IF r.lazy THEN (IF skip.ok THEN skip ELSE take)
                      ELSE (IF take.ok THEN take ELSE skip)
              [] r.op = "grp" ->
                   Match(cx, << r.item, [op |-> "close", n |-> r.n, from |-> pos] >> \o rest, pos, groups)
              [] r.op = "close" ->
                   Match(cx, rest, pos, [groups EXCEPT ![r.n] = << r.from, pos >>])
              [] r.op = "look" ->
                   IF Match(cx, << r.item >>, pos, groups).ok
                   THEN Match(cx, rest, pos, groups) ELSE NoMatch
              [] r.op = "end" ->
                   IF pos = cx.n + 1 \/ (pos = cx.n /\ Char(cx.t, pos) = "\n")
                   THEN Match(cx, rest, pos, groups) ELSE NoMatch
              [] r.op = "Z" ->
                   IF pos = cx.n + 1 THEN Match(cx, rest, pos, groups) ELSE NoMatch

\* re.search(pattern, text): the match at the leftmost position where one starts.
Search(cx, pattern) ==
    The({ IF found = {} THEN NoMatch
          ELSE CHOOSE m \in found : \A other \in found : m.start <= other.start :
          found \in { { m \in { [Match(cx, << pattern >>, i, NoGroups) EXCEPT !.start = i] :
                                 i \in 1..(cx.n + 1) } : m.ok } } })

\* m.group(k); "" for a group that took no part in the match (Python: None).
Group(cx, m, k) == SubSeq(cx.t, m.groups[k][1], m.groups[k][2] - 1)

\* m.group(k) is not None
HasGroup(m, k) == m.groups[k][1] > 0

\* re.sub(pattern, '', text) for a pattern that matches no empty string.
RECURSIVE SubEmpty(_, _)
SubEmpty(pattern, text) ==
    The({ IF ~m.ok THEN text
          ELSE SubSeq(text, 1, m.start - 1) \o SubEmpty(pattern, SubSeq(text, m.end, Len(text))) :
          m \in { Search(Subject(text), pattern) } })

\* ---------------------------------------------------------------- rule engine

AZ09 == UpperSet \cup DigitSet

\* \d{2}/\d{2}/\d{4}
RE_Date == Cat(<< Times(Digit, 2), Lit("/"), Times(Digit, 2), Lit("/"), Times(Digit, 4) >>)

\* r'POLICY\s*NUMBER.*?\n([A-Z0-9][A-Z0-9\-\/]+)'
RE_PolicyNumber ==
    IgnoreCase(Cat(<< Lit("POLICY"), Star(Space), Lit("NUMBER"), LazyStar(Dot), Lit("\n"),
                      Grp(1, Cat(<< Cls(AZ09), Plus(Cls(AZ09 \cup {"-", "/"})) >>)) >>))

\* r'Policy\s*(?:Number|No\.?|#)[:\s]*([A-Z0-9\-\/]+)'
RE_PolicyNumberInline ==
    IgnoreCase(Cat(<< Lit("Policy"), Star(Space),
                      Alt(<< Lit("Number"), Cat(<< Lit("No"), Opt(Lit(".")) >>), Lit("#") >>),
                      Star(Cls({":"} \cup SpaceSet)),
                      Grp(1, Plus(Cls(AZ09 \cup {"-", "/"}))) >>))

\* r'POLICYHOLDER\s*NAME.*?\n(.+)'
RE_PolicyholderName ==
    IgnoreCase(Cat(<< Lit("POLICYHOLDER"), Star(Space), Lit("NAME"), LazyStar(Dot), Lit("\n"),
                      Grp(1, Plus(Dot)) >>))

\* r'(\d{2}/\d{2}/\d{4}\s*to\s*\d{2}/\d{2}/\d{4})'
RE_EffectiveDates ==
    Grp(1, Cat(<< RE_Date, Star(Space), Lit("to"), Star(Space), RE_Date >>))

\* [A-Za-z][\w\s\.]+?
RE_NameText == Cat(<< Cls(LetterSet), LazyPlus(Cls(WordSet \cup SpaceSet \cup {"."})) >>)

\* (?:\n|$)
RE_LineEnd == Alt(<< Lit("\n"), EndOfText >>)

\* r'(?:Policyholder|Insured)\s*(?:Name)?[:\s]+([A-Za-z][\w\s\.]+?)(?:\n|$)'
RE_PolicyholderInline ==
    IgnoreCase(Cat(<< Alt(<< Lit("Policyholder"), Lit("Insured") >>), Star(Space), Opt(Lit("Name")),
                      Plus(Cls({":"} \cup SpaceSet)), Grp(1, RE_NameText), RE_LineEnd >>))

\* r'Name\s*of\s*Insured[:\s]+([A-Za-z][\w\s\.]+?)(?:\n|$)'
RE_NameOfInsured ==
    IgnoreCase(Cat(<< Lit("Name"), Star(Space), Lit("of"), Star(Space), Lit("Insured"),
                      Plus(Cls({":"} \cup SpaceSet)), Grp(1, RE_NameText), RE_LineEnd >>))

\* DATE\s*OF\s*LOSS.*?\n
RE_DateOfLossLabel ==
    Cat(<< Lit("DATE"), Star(Space), Lit("OF"), Star(Space), Lit("LOSS"), LazyStar(Dot), Lit("\n") >>)

\* r'DATE\s*OF\s*LOSS.*?\n(\d{2}/\d{2}/\d{4})\s+([\d:]+\s*[AP]M)'
RE_DateTimeOfLoss ==
    IgnoreCase(Cat(<< RE_DateOfLossLabel, Grp(1, RE_Date), Plus(Space),
                      Grp(2, Cat(<< Plus(Cls(DigitSet \cup {":"})), Star(Space), Cls({"A", "P"}), Lit("M") >>)) >>))

\* r'DATE\s*OF\s*LOSS.*?\n(\d{2}/\d{2}/\d{4})'
RE_DateOfLoss == IgnoreCase(Cat(<< RE_DateOfLossLabel, Grp(1, RE_Date) >>))

\* r'(?:Date\s*of\s*(?:Loss|Incident))[:\s]*([\d/\-]+)'
RE_DateInline ==
    IgnoreCase(Cat(<< Lit("Date"), Star(Space), Lit("of"), Star(Space),
                      Alt(<< Lit("Loss"), Lit("Incident") >>),
                      Star(Cls({":"} \cup SpaceSet)),
                      Grp(1, Plus(Cls(DigitSet \cup {"/", "-"}))) >>))

\* r'([\d]{1,2}:[\d]{2}\s*[AP]M)'
RE_Time ==
    IgnoreCase(Grp(1, Cat(<< Rep(Digit, 1, 2, FALSE), Lit(":"), Times(Digit, 2), Star(Space),
                             Cls({"A", "P"}), Lit("M") >>)))

\* r'LOCATION\s*OF\s*LOSS\n(.+)'
RE_LocationOfLoss ==
    IgnoreCase(Cat(<< Lit("LOCATION"), Star(Space), Lit("OF"), Star(Space), Lit("LOSS"), Lit("\n"),
                      Grp(1, Plus(Dot)) >>))

\* r'Location[:\s]+(.+?)(?:\n|$)'
RE_LocationInline ==
    IgnoreCase(Cat(<< Lit("Location"), Plus(Cls({":"} \cup SpaceSet)), Grp(1, LazyPlus(Dot)), RE_LineEnd >>))

\* r'DESCRIPTION\s*OF\s*ACCIDENT\n([\s\S]+?)(?=\nINSURED\s+VEHICLE|\nASSET|\n[A-Z]{4,}\s+VEHICLE)'
RE_DescriptionOfAccident ==
    IgnoreCase(Cat(<< Lit("DESCRIPTION"), Star(Space), Lit("OF"), Star(Space), Lit("ACCIDENT"), Lit("\n"),
                      Grp(1, LazyPlus(AnyChar)),
                      Ahead(Alt(<< Cat(<< Lit("\nINSURED"), Plus(Space), Lit("VEHICLE") >>),
                                   Lit("\nASSET"),
                                   Cat(<< Lit("\n"), AtLeast(Cls(UpperSet), 4), Plus(Space), Lit("VEHICLE") >>) >>)) >>))

\* r'Description[:\s]+(.+?)(?:\n[A-Z]|\Z)' with re.IGNORECASE | re.DOTALL
RE_DescriptionInline ==
    DotAll(IgnoreCase(Cat(<< Lit("Description"), Plus(Cls({":"} \cup SpaceSet)), Grp(1, LazyPlus(Dot)),
                             Alt(<< Cat(<< Lit("\n"), Cls(UpperSet) >>), EndZ >>) >>)))

\* r'REPORTED\s*BY\s+DATE\s*REPORTED\n(.+)'
RE_ReportedBy ==
    IgnoreCase(Cat(<< Lit("REPORTED"), Star(Space), Lit("BY"), Plus(Space), Lit("DATE"), Star(Space),
                      Lit("REPORTED"), Lit("\n"), Grp(1, Plus(Dot)) >>))

\* r'\(.*?\)'
RE_Parenthesised == Cat(<< Lit("("), LazyStar(Dot), Lit(")") >>)

\* r'THIRD\s*PARTY\s*NAME.*?\n(.+)'
RE_ThirdPartyName ==
    IgnoreCase(Cat(<< Lit("THIRD"), Star(Space), Lit("PARTY"), Star(Space), Lit("NAME"), LazyStar(Dot),
                      Lit("\n"), Grp(1, Plus(Dot)) >>))

\* r'CONTACT\s*PHONE\n(.+)'
RE_ContactPhone ==
    IgnoreCase(Cat(<< Lit("CONTACT"), Star(Space), Lit("PHONE"), Lit("\n"), Grp(1, Plus(Dot)) >>))

\* [\w.\-]+@[\w.\-]+\.\w+
RE_EmailText ==
    Cat(<< Plus(Cls(WordSet \cup {".", "-"})), Lit("@"), Plus(Cls(WordSet \cup {".", "-"})),
           Lit("."), Plus(Word) >>)

\* r'EMAIL\s*ADDRESS\n([\w.\-]+@[\w.\-]+\.\w+)'
RE_EmailAddress ==
    IgnoreCase(Cat(<< Lit("EMAIL"), Star(Space), Lit("ADDRESS"), Lit("\n"), Grp(1, RE_EmailText) >>))

\* r'(\+91[\-\s]?\d[\d\-\s]{8,})'
RE_Phone ==
    Grp(1, Cat(<< Lit("+91"), Opt(Cls({"-"} \cup SpaceSet)), Digit,
                  AtLeast(Cls(DigitSet \cup {"-"} \cup SpaceSet), 8) >>))

\* r'([\w.\-]+@[\w.\-]+\.\w+)'
RE_Email == Grp(1, RE_EmailText)

\* r'ASSET\s*TYPE.*?\n(.+)'
RE_AssetType ==
    IgnoreCase(Cat(<< Lit("ASSET"), Star(Space), Lit("TYPE"), LazyStar(Dot), Lit("\n"), Grp(1, Plus(Dot)) >>))

\* r'\s{2,}'
RE_Gap == AtLeast(Space, 2)

\* r'(?:V\.?I\.?N\.?\s*/?\s*ASSET\s*ID|ASSET\s*ID).*?\n(.+)'
RE_AssetId ==
    IgnoreCase(Cat(<< Alt(<< Cat(<< Lit("V"), Opt(Lit(".")), Lit("I"), Opt(Lit(".")), Lit("N"), Opt(Lit(".")),
                                   Star(Space), Opt(Lit("/")), Star(Space),
                                   Lit("ASSET"), Star(Space), Lit("ID") >>),
                             Cat(<< Lit("ASSET"), Star(Space), Lit("ID") >>) >>),
                      LazyStar(Dot), Lit("\n"), Grp(1, Plus(Dot)) >>))

\* r'([A-Z0-9]{10,})'
RE_Vin == Grp(1, AtLeast(Cls(AZ09), 10))

\* r'MODEL.*?\n.*?([A-Z0-9]{10,})'
RE_ModelLine ==
    IgnoreCase(Cat(<< Lit("MODEL"), LazyStar(Dot), Lit("\n"), LazyStar(Dot), Grp(1, AtLeast(Cls(AZ09), 10)) >>))

\* [\d,]+
RE_Figure == Plus(Cls(DigitSet \cup {","}))

\* r'ESTIMATED\s*DAMAGE\s*\(INR\).*?\n([\d,]+)(?:\s+([\d,]+))?'
RE_EstimatedDamage ==
    IgnoreCase(Cat(<< Lit("ESTIMATED"), Star(Space), Lit("DAMAGE"), Star(Space), Lit("(INR)"), LazyStar(Dot),
                      Lit("\n"), Grp(1, RE_Figure), Opt(Cat(<< Plus(Space), Grp(2, RE_Figure) >>)) >>))

\* The three characters the source file holds where a rupee sign was meant (a
\* rupee sign decoded in the wrong character set). The model's strings are ASCII:
\* "~~~", which no text drawn holds, stands for them.
MisdecodedRupee == "~~~"

\* r'(?:Estimated\s*Damage|Damage\s*Amount)[:\s]*(?:<misdecoded rupee>|Rs\.?|INR)?\s*([\d,]+)'
RE_DamageInline ==
    IgnoreCase(Cat(<< Alt(<< Cat(<< Lit("Estimated"), Star(Space), Lit("Damage") >>),
                             Cat(<< Lit("Damage"), Star(Space), Lit("Amount") >>) >>),
                      Star(Cls({":"} \cup SpaceSet)),
                      Opt(Alt(<< Lit(MisdecodedRupee), Cat(<< Lit("Rs"), Opt(Lit(".")) >>), Lit("INR") >>)),
                      Star(Space), Grp(1, RE_Figure) >>))

\* r'CLAIM\s*TYPE\s+ATTACHMENTS\n(.+)'
RE_ClaimTypeAttachments ==
    IgnoreCase(Cat(<< Lit("CLAIM"), Star(Space), Lit("TYPE"), Plus(Space), Lit("ATTACHMENTS"), Lit("\n"),
                      Grp(1, Plus(Dot)) >>))

\* r'((?:Photos?|Documents?|FIR|Report|Receipt|Hospital|Records?)[\s\S]*)'
RE_AttachmentWords ==
    IgnoreCase(Grp(1, Cat(<< Alt(<< Cat(<< Lit("Photo"), Opt(Lit("s")) >>),
                                    Cat(<< Lit("Document"), Opt(Lit("s")) >>),
                                    Lit("FIR"), Lit("Report"), Lit("Receipt"), Lit("Hospital"),
                                    Cat(<< Lit("Record"), Opt(Lit("s")) >>) >>),
                             Star(AnyChar) >>)))

\* r'CLAIM\s*TYPE.*?\n(.+)'
RE_ClaimType ==
    IgnoreCase(Cat(<< Lit("CLAIM"), Star(Space), Lit("TYPE"), LazyStar(Dot), Lit("\n"), Grp(1, Plus(Dot)) >>))

\* r'ATTACHMENTS.*?\n(.+)'
RE_Attachments ==
    IgnoreCase(Cat(<< Lit("ATTACHMENTS"), LazyStar(Dot), Lit("\n"), Grp(1, Plus(Dot)) >>))

\* r'INITIAL\s*ESTIMATE.*?\n.*?([\d,]+)'
RE_InitialEstimate ==
    IgnoreCase(Cat(<< Lit("INITIAL"), Star(Space), Lit("ESTIMATE"), LazyStar(Dot), Lit("\n"), LazyStar(Dot),
                      Grp(1, RE_Figure) >>))

\* s.split(): the runs of characters that are not whitespace.
RECURSIVE Words(_)
Words(s) ==
    LET t == LStrip(s)
        k == IF \E i \in 1..Len(t) : IsSpace(Char(t, i))
             THEN (CHOOSE i \in 1..Len(t) : IsSpace(Char(t, i)) /\ \A j \in 1..(i - 1) : ~IsSpace(Char(t, j))) - 1
             ELSE Len(t)
    IN IF t = "" THEN <<>> ELSE << SubSeq(t, 1, k) >> \o Words(SubSeq(t, k + 1, Len(t)))

\* s.rstrip('-')
RECURSIVE RStripHyphen(_)
RStripHyphen(s) == IF s # "" /\ Char(s, Len(s)) = "-" THEN RStripHyphen(SubSeq(s, 1, Len(s) - 1)) ELSE s

\* re.split(r'\s{2,}', line): the parts between the gaps.
RECURSIVE SplitGaps(_)
SplitGaps(line) ==
    The({ IF ~m.ok THEN << line >>
          ELSE << SubSeq(line, 1, m.start - 1) >> \o SplitGaps(SubSeq(line, m.end, Len(line))) :
          m \in { Search(Subject(line), RE_Gap) } })

\* The value of a slot the rule engine has got to so far is falsy: `if not fields[..][..]`.
Unset(fields, section, key) == ~Truthy(Get(fields, section, key))

\* m.group(k).strip()
Captured(cx, m, k) == Strip(Group(cx, m, k))

\* lines 140-147
PolicyNumberRule(cx, fields) ==
    The({ IF m.ok THEN With(fields, "policyInformation", "policyNumber", Str(Captured(cx, m, 1)))
          ELSE IF m2.ok THEN With(fields, "policyInformation", "policyNumber", Str(Captured(cx, m2, 1)))
          ELSE fields :
          m \in { Search(cx, RE_PolicyNumber) }, m2 \in { Search(cx, RE_PolicyNumberInline) } })

\* lines 164-169: the fallback patterns, the first that matches gives the name.
PolicyholderFallback(cx, fields) ==
    The({ IF m.ok THEN With(fields, "policyInformation", "policyholderName", Str(Captured(cx, m, 1)))
          ELSE IF m2.ok THEN With(fields, "policyInformation", "policyholderName", Str(Captured(cx, m2, 1)))
          ELSE fields :
          m \in { Search(cx, RE_PolicyholderInline) }, m2 \in { Search(cx, RE_NameOfInsured) } })

\* lines 155-162: the effective dates of the line, then the name before them.
PolicyholderDated(line, lx, date_match, fields) ==
    IF date_match.ok
    THEN With(fields, "policyInformation", "effectiveDates", Str(Captured(lx, date_match, 1)))
    ELSE fields

PolicyholderNamed(name, dated) ==
    IF name # "" /\ Len(name) > 2
    THEN With(dated, "policyInformation", "policyholderName", Str(name))
    ELSE dated

\* lines 153-162: the line under the label, split at the effective dates.
PolicyholderLine(text, fields) ==
    The({ The({ PolicyholderNamed(name, dated) :
                name \in { IF date_match.ok THEN Strip(SubSeq(line, 1, date_match.start - 1))
                           ELSE Strip(line) },
                dated \in { PolicyholderDated(line, Subject(line), date_match, fields) } }) :
          line \in { text }, date_match \in { Search(Subject(text), RE_EffectiveDates) } })

\* lines 151-169
PolicyholderRule(cx, fields) ==
    The({ IF m.ok THEN PolicyholderLine(Captured(cx, m, 1), fields)
          ELSE PolicyholderFallback(cx, fields) :
          m \in { Search(cx, RE_PolicyholderName) } })

\* lines 172-175
EffectiveDatesRule(cx, fields) ==
    The({ IF Unset(fields, "policyInformation", "effectiveDates") /\ m.ok
          THEN With(fields, "policyInformation", "effectiveDates", Str(Captured(cx, m, 1)))
          ELSE fields :
          m \in { Search(cx, RE_EffectiveDates) } })

\* lines 196-199: the time, unless the date pattern gave one.
TimeFallback(cx, dated) ==
    The({ IF t.ok /\ Unset(dated, "incidentInformation", "time")
          THEN With(dated, "incidentInformation", "time", Str(Captured(cx, t, 1)))
          ELSE dated :
          t \in { Search(cx, RE_Time) } })

\* lines 189-199: the separate patterns for date and time.
DateTimeFallback(cx, fields) ==
    The({ TimeFallback(cx, dated) :
          dated \in { The({ IF m.ok
                            THEN With(fields, "incidentInformation", "date", Str(Captured(cx, m, 1)))
                            ELSE IF m2.ok
                            THEN With(fields, "incidentInformation", "date", Str(Captured(cx, m2, 1)))
                            ELSE fields :
                            m \in { Search(cx, RE_DateOfLoss) }, m2 \in { Search(cx, RE_DateInline) } }) } })

\* lines 183-199
DateTimeRule(cx, fields) ==
    The({ IF m.ok
          THEN With(With(fields, "incidentInformation", "date", Str(Captured(cx, m, 1))),
                    "incidentInformation", "time", Str(Captured(cx, m, 2)))
          ELSE DateTimeFallback(cx, fields) :
          m \in { Search(cx, RE_DateTimeOfLoss) } })

\* lines 202-208
LocationRule(cx, fields) ==
    The({ IF m.ok THEN With(fields, "incidentInformation", "location", Str(Captured(cx, m, 1)))
          ELSE IF m2.ok THEN With(fields, "incidentInformation", "location", Str(Captured(cx, m2, 1)))
          ELSE fields :
          m \in { Search(cx, RE_LocationOfLoss) }, m2 \in { Search(cx, RE_LocationInline) } })

\* ' '.join(m.group(1).strip().split())
Rejoined(cx, m) == Join(Words(Captured(cx, m, 1)), " ")

\* lines 211-218
DescriptionRule(cx, fields) ==
    The({ IF m.ok THEN With(fields, "incidentInformation", "description", Str(Rejoined(cx, m)))
          ELSE IF m2.ok THEN With(fields, "incidentInformation", "description", Str(Rejoined(cx, m2)))
          ELSE fields :
          m \in { Search(cx, RE_DescriptionOfAccident) }, m2 \in { Search(cx, RE_DescriptionInline) } })

\* lines 227-230: the line under the label without its dates and parentheses.
ReportedName(line) == Strip(SubEmpty(RE_Parenthesised, Strip(SubEmpty(RE_Date, line))))

\* lines 225-231
ClaimantNamed(cx, fields) ==
    The({ IF ~m.ok THEN fields
          ELSE The({ IF name # "" /\ Len(name) > 2
                     THEN With(fields, "involvedParties", "claimant", Str(name))
                     ELSE fields :
                     name \in { ReportedName(Captured(cx, m, 1)) } }) :
          m \in { Search(cx, RE_ReportedBy) } })

\* Fault: lines 233-234 left out, no default for the claimant.
ClaimantRule_NoDefault(cx, fields) == ClaimantNamed(cx, fields)

\* lines 225-234
ClaimantRule(cx, fields) ==
    The({ IF Unset(named, "involvedParties", "claimant")
          THEN With(named, "involvedParties", "claimant", Get(named, "policyInformation", "policyholderName"))
          ELSE named :
          named \in { ClaimantNamed(cx, fields) } })

\* lines 239-243
ThirdPartyLine(text, fields) ==
    The({ IF lowered \notin {"none", "n/a", "na", "", "none - single vehicle accident"}
          THEN With(fields, "involvedParties", "thirdParties", Str(line))
          ELSE IF Contains(lowered, "none") \/ Contains(lowered, "n/a")
          THEN With(fields, "involvedParties", "thirdParties", Str(line))
          ELSE fields :
          line \in { text }, lowered \in { Lower(text) } })

\* lines 237-243
ThirdPartiesRule(cx, fields) ==
    The({ IF ~m.ok THEN fields ELSE ThirdPartyLine(Captured(cx, m, 1), fields) :
          m \in { Search(cx, RE_ThirdPartyName) } })

\* lines 246-251: the lines under the two labels.
LabelledContacts(cx) ==
    The({ (IF m.ok THEN << Captured(cx, m, 1) >> ELSE <<>>)
          \o (IF m2.ok THEN << Captured(cx, m2, 1) >> ELSE <<>>) :
          m \in { Search(cx, RE_ContactPhone) }, m2 \in { Search(cx, RE_EmailAddress) } })

\* lines 253-259: the first phone number and the first e-mail address of the text.
ScannedContacts(cx) ==
    The({ (IF phones.ok THEN << Captured(cx, phones, 1) >> ELSE <<>>)
          \o (IF emails.ok THEN << Group(cx, emails, 1) >> ELSE <<>>) :
          phones \in { Search(cx, RE_Phone) }, emails \in { Search(cx, RE_Email) } })

\* lines 246-261
ContactDetailsRule(cx, fields) ==
    The({ IF contacts # <<>>
          THEN With(fields, "involvedParties", "contactDetails", Str(Join(contacts, ", ")))
          ELSE fields :
          contacts \in { The({ IF labelled = <<>> THEN ScannedContacts(cx) ELSE labelled :
                               labelled \in { LabelledContacts(cx) } }) } })

\* lines 268-273
AssetTypeRule(cx, fields) ==
    The({ IF m.ok
          THEN With(fields, "assetDetails", "assetType", Str(Strip(SplitGaps(Captured(cx, m, 1))[1])))
          ELSE fields :
          m \in { Search(cx, RE_AssetType) } })

\* lines 278-281: the identifier in the line under the label.
AssetIdLine(text, fields) ==
    The({ IF vin.ok THEN With(fields, "assetDetails", "assetId", Str(Captured(Subject(text), vin, 1)))
          ELSE fields :
          vin \in { Search(Subject(text), RE_Vin) } })

\* lines 283-286: the model line, when the label gave no identifier.
AssetIdFallback(cx, labelled) ==
    The({ IF Unset(labelled, "assetDetails", "assetId") /\ m2.ok
          THEN With(labelled, "assetDetails", "assetId", Str(Captured(cx, m2, 1)))
          ELSE labelled :
          m2 \in { Search(cx, RE_ModelLine) } })

\* lines 276-286
AssetIdRule(cx, fields) ==
    The({ AssetIdFallback(cx, labelled) :
          labelled \in { The({ IF m.ok THEN AssetIdLine(Captured(cx, m, 1), fields) ELSE fields :
                               m \in { Search(cx, RE_AssetId) } }) } })

\* m.group(k).strip().replace(',', '')
Figure(cx, m, k) == Remove(Captured(cx, m, k), ",")

\* lines 292-295: the first figure of the line, and the second when there is one.
DamageLine(cx, m, fields) ==
    The({ IF HasGroup(m, 2) /\ Group(cx, m, 2) # ""
          THEN With(damaged, "otherFields", "initialEstimate", Str(Figure(cx, m, 2)))
          ELSE damaged :
          damaged \in { With(fields, "assetDetails", "estimatedDamage", Str(Figure(cx, m, 1))) } })

\* lines 290-298
DamageRule(cx, fields) ==
    The({ IF m.ok THEN DamageLine(cx, m, fields)
          ELSE IF m2.ok THEN With(fields, "assetDetails", "estimatedDamage", Str(Figure(cx, m2, 1)))
          ELSE fields :
          m \in { Search(cx, RE_EstimatedDamage) }, m2 \in { Search(cx, RE_DamageInline) } })

\* lines 312-317: the line split at the first attachment word.
SplitAtAttachment(line, lx, attach_match, fields) ==
    The({ IF att # ""
          THEN With(typed, "otherFields", "attachments", Str(att))
          ELSE typed :
          att \in { Captured(lx, attach_match, 1) },
          typed \in { The({ IF ct # "" THEN With(fields, "otherFields", "claimType", Str(ct)) ELSE fields :
                            ct \in { Strip(RStripHyphen(Strip(SubSeq(line, 1, attach_match.start - 1)))) } }) } })

\* lines 319-324: the line split at its gaps.
SplitAtGaps(parts, fields) ==
    The({ IF Len(parts) > 1
          THEN With(first, "otherFields", "attachments", Str(Strip(parts[2])))
          ELSE first :
          first \in { With(fields, "otherFields", "claimType", Str(Strip(parts[1]))) } })

\* lines 308-324: the line under "CLAIM TYPE ATTACHMENTS" split into the two slots.
ClaimTypeLine(text, fields) ==
    The({ IF attach_match.ok THEN SplitAtAttachment(line, Subject(line), attach_match, fields)
          ELSE The({ SplitAtGaps(parts, fields) : parts \in { SplitGaps(line) } }) :
          line \in { text }, attach_match \in { Search(Subject(text), RE_AttachmentWords) } })

\* lines 325-331: the two labels on their own.
ClaimTypeFallback(cx, fields) ==
    The({ IF m3.ok THEN With(typed, "otherFields", "attachments", Str(Captured(cx, m3, 1)))
          ELSE typed :
          m3 \in { Search(cx, RE_Attachments) },
          typed \in { The({ IF m2.ok
                            THEN With(fields, "otherFields", "claimType", Str(Captured(cx, m2, 1)))
                            ELSE fields :
                            m2 \in { Search(cx, RE_ClaimType) } }) } })

\* lines 306-331
ClaimTypeRule(cx, fields) ==
    The({ IF m.ok THEN ClaimTypeLine(Captured(cx, m, 1), fields)
          ELSE ClaimTypeFallback(cx, fields) :
          m \in { Search(cx, RE_ClaimTypeAttachments) } })

\* lines 334-340
InitialEstimateRule(cx, fields) ==
    The({ IF Unset(fields, "otherFields", "initialEstimate") /\ m.ok
          THEN With(fields, "otherFields", "initialEstimate", Str(Figure(cx, m, 1)))
          ELSE fields :
          m \in { Search(cx, RE_InitialEstimate) } })

\* The rules of _extract_with_regex in the order of the source, each working on
\* the field set the rules before it left.
Rule(i, cx, fields) ==
    CASE i = 1  -> PolicyNumberRule(cx, fields)
      [] i = 2  -> PolicyholderRule(cx, fields)
      [] i = 3  -> EffectiveDatesRule(cx, fields)
      [] i = 4  -> DateTimeRule(cx, fields)
      [] i = 5  -> LocationRule(cx, fields)
      [] i = 6  -> DescriptionRule(cx, fields)
      [] i = 7  -> ClaimantRule(cx, fields)
      [] i = 8  -> ThirdPartiesRule(cx, fields)
      [] i = 9  -> ContactDetailsRule(cx, fields)
      [] i = 10 -> AssetTypeRule(cx, fields)
      [] i = 11 -> AssetIdRule(cx, fields)
      [] i = 12 -> DamageRule(cx, fields)
      [] i = 13 -> ClaimTypeRule(cx, fields)
      [] i = 14 -> InitialEstimateRule(cx, fields)

RECURSIVE RulesUpTo(_, _, _)
RulesUpTo(n, cx, fields) ==
    IF n = 0 THEN fields
    ELSE CHOOSE out \in { Rule(n, c, before) : c \in {cx}, before \in { RulesUpTo(n - 1, cx, fields) } } : TRUE

\* The body of _extract_with_regex on the field set `fields` of line 133.
RulesFrom(fields, text) == RulesUpTo(14, Subject(text), fields)

\* Fault: one field set shared by all calls, fields = self.fields, instead of a
\* fresh get_empty_fields(): what an earlier call stored is still there.
_extract_with_regex_Shared(text) == RulesFrom(extracted_fields, text)

\* LLMProcessor._extract_with_regex
_extract_with_regex(text) == RulesFrom(get_empty_fields, text)

\* ---------------------------------------------------------------- json

\* What json.loads makes of a JSON text: None, a str, an int or float (with the
\* text repr() gives for it), a bool, a list, or a dict with its keys in the
\* order of the text.
JNull == [json |-> "null"]

JString(s) == [json |-> "string", s |-> s]

JNumber(repr, zero) == [json |-> "number", repr |-> repr, zero |-> zero]

JBool(b) == [json |-> "bool", b |-> b]

JArray(items) == [json |-> "array", items |-> items]

JObject(keys, members) == [json |-> "object", keys |-> keys, members |-> members]

JEmptyObject == JObject(<<>>, <<>>)

\* repr(value), which is also str(value) for everything but a str.
RECURSIVE PyRepr(_)
PyRepr(j) ==
    CASE j.json = "null"   -> "None"
      [] j.json = "string" -> "'" \o j.s \o "'"
      [] j.json = "number" -> j.repr
      [] j.json = "bool"   -> IF j.b THEN "True" ELSE "False"
      [] j.json = "array"  -> "[" \o Join([i \in 1..Len(j.items) |-> PyRepr(j.items[i])], ", ") \o "]"
      [] j.json = "object" ->
            "{" \o Join([i \in 1..Len(j.keys) |->
                            "'" \o j.keys[i] \o "': " \o PyRepr(j.members[j.keys[i]])], ", ") \o "}"

\* bool(value)
PyTruthy(j) ==
    CASE j.json = "null"   -> FALSE
      [] j.json = "string" -> j.s # ""
      [] j.json = "number" -> ~j.zero
      [] j.json = "bool"   -> j.b
      [] j.json = "array"  -> j.items # <<>>
      [] j.json = "object" -> j.keys # <<>>

\* type(value).__name__
PyType(j) ==
    CASE j.json = "number" -> "number"
      [] j.json = "bool"   -> "bool"
      [] j.json = "array"  -> "list"
      [] j.json = "object" -> "dict"

\* The field value an assignment base[section][field] = value stores: the
\* parsed value itself, whatever its type.
FromJson(j) ==
    CASE j.json = "null"   -> None
      [] j.json = "string" -> Str(j.s)
      [] OTHER             -> Other(PyType(j), PyRepr(j), PyTruthy(j))

\* `key in value` raises TypeError: value is not iterable.
InRaises(j) == j.json \in {"null", "number", "bool"}

\* `key in value` for a str key: a key of a dict, an element of a list, a
\* substring of a str.
PyIn(key, j) ==
    CASE j.json = "object" -> key \in DOMAIN j.members
      [] j.json = "array"  -> \E i \in 1..Len(j.items) : j.items[i] = JString(key)
      [] j.json = "string" -> Contains(j.s, key)
      [] OTHER             -> FALSE

\* value[key] for a str key raises TypeError: list and str indices must be integers.
IndexRaises(j) == j.json # "object"

\* value[key]
Index(j, key) == j.members[key]

\* ---------------------------------------------------------------- LLM adapter

\* What client.chat.completions.create and json.loads come to in one attempt:
\* an exception of the call (network, authentication, no client library, no
\* content), a content json.loads rejects, or the value json.loads returns.
NoReply == [kind |-> "none"]

ReplyError(exception) == [kind |-> "error", exception |-> exception]

ReplyText == [kind |-> "text"]

ReplyJson(value) == [kind |-> "json", value |-> value]

Returned(fields) == [raised |-> "", fields |-> fields]

Raised(exception) == [raised |-> exception]

\* Fault: base[section].update(parsed[section]), which takes every key of the response.
SectionFrom_Update(base_section, parsed_section) ==
    [ field \in DOMAIN base_section \cup
                (IF parsed_section.json = "object" THEN DOMAIN parsed_section.members ELSE {}) |->
        IF PyIn(field, parsed_section) THEN FromJson(Index(parsed_section, field))
        ELSE base_section[field] ]

\* for field in base[section]: if field in parsed[section]:
\*     base[section][field] = parsed[section][field]
SectionFrom(base_section, parsed_section) ==
    [ field \in DOMAIN base_section |->
        IF PyIn(field, parsed_section) THEN FromJson(Index(parsed_section, field))
        ELSE base_section[field] ]

\* The inner loop raises TypeError.
SectionRaises(base_section, parsed_section) ==
    \/ InRaises(parsed_section)
    \/ \E field \in DOMAIN base_section : PyIn(field, parsed_section) /\ IndexRaises(parsed_section)

\* for section in base: if section in parsed: ...
Fill(base, parsed) ==
    [ section \in DOMAIN base |->
        IF PyIn(section, parsed) THEN SectionFrom(base[section], Index(parsed, section))
        ELSE base[section] ]

\* The loop over the sections raises TypeError.
FillRaises(base, parsed) ==
    \/ InRaises(parsed)
    \/ \E section \in DOMAIN base :
          /\ PyIn(section, parsed)
          /\ (IndexRaises(parsed) \/ SectionRaises(base[section], Index(parsed, section)))

\* LLMProcessor._extract_with_openai, given what the service answers.
_extract_with_openai(text, reply) ==
    CASE reply.kind = "error" -> Raised(reply.exception)
      [] reply.kind = "text"  -> Raised("JSONDecodeError")
      [] reply.kind = "json"  ->
            IF FillRaises(get_empty_fields, reply.value) THEN Raised("TypeError")
            ELSE Returned(Fill(get_empty_fields, reply.value))

\* LLMProcessor.extract_fields
extract_fields(text, key, reply) ==
    IF key # ""
    THEN LET attempt == _extract_with_openai(text, reply)
         IN IF attempt.raised # "" THEN _extract_with_regex(text) ELSE attempt.fields
    ELSE _extract_with_regex(text)

\* ---------------------------------------------------------------- document extractor

\* A file at filepath: whether it exists, its name, whether it can be opened and
\* parsed, and what reading it gives: the text of each page of a PDF (None for a
\* page without text), the utf-8 decoding of a text file (None when it is not
\* valid utf-8) and its latin-1 decoding.
NoDocument == [exists |-> FALSE, name |-> "", readable |-> FALSE, pages |-> <<>>,
               utf8 |-> None, latin1 |-> ""]

TextFile(name, text) == [exists |-> TRUE, name |-> name, readable |-> TRUE, pages |-> <<>>,
                         utf8 |-> Str(text), latin1 |-> text]

Latin1File(name, text) == [exists |-> TRUE, name |-> name, readable |-> TRUE, pages |-> <<>>,
                           utf8 |-> None, latin1 |-> text]

PdfFile(name, pages) == [exists |-> TRUE, name |-> name, readable |-> TRUE, pages |-> pages,
                         utf8 |-> None, latin1 |-> ""]

DamagedPdf(name) == [exists |-> TRUE, name |-> name, readable |-> FALSE, pages |-> <<>>,
                     utf8 |-> None, latin1 |-> ""]

MissingFile(name) == [exists |-> FALSE, name |-> name, readable |-> FALSE, pages |-> <<>>,
                      utf8 |-> None, latin1 |-> ""]

ExtractedText(text) == [raised |-> "", text |-> text]

\* os.path.splitext(filepath)[1]: from the last dot of the name on, unless the
\* name has no dot after its leading dots.
LastDot(name) ==
    LET dots == { i \in 1..Len(name) : Char(name, i) = "." }
    IN IF dots = {} THEN 0 ELSE CHOOSE i \in dots : \A j \in dots : j <= i

splitext(name) ==
    LET dot == LastDot(name)
    IN IF dot = 0 \/ (\A i \in 1..dot : Char(name, i) = ".") THEN ""
       ELSE SubSeq(name, dot, Len(name))

\* if page_text: text_parts.append(page_text)
RECURSIVE TextParts(_)
TextParts(pages) ==
    IF pages = <<>> THEN <<>>
    ELSE (IF Truthy(Head(pages)) THEN <<Head(pages).s>> ELSE <<>>) \o TextParts(Tail(pages))

\* DocumentExtractor._extract_from_pdf: RuntimeError when neither library reads the file.
_extract_from_pdf(doc) ==
    IF doc.readable THEN ExtractedText(Join(TextParts(doc.pages), "\n\n")) ELSE Raised("RuntimeError")

\* DocumentExtractor._extract_from_txt: utf-8, and latin-1 when that fails.
_extract_from_txt(doc) ==
    IF doc.utf8.some THEN ExtractedText(doc.utf8.s) ELSE ExtractedText(doc.latin1)

\* DocumentExtractor.extract
extract(doc) ==
    IF ~doc.exists THEN Raised("FileNotFoundError")
    ELSE LET ext == Lower(splitext(doc.name))
         IN IF ext = ".pdf" THEN _extract_from_pdf(doc)
            ELSE IF ext = ".txt" THEN _extract_from_txt(doc)
            ELSE Raised("ValueError")

\* ---------------------------------------------------------------- pipeline

\* Fault: only the empty text is refused (not raw_text).
EmptyText_NoStrip(text) == text = ""

\* not raw_text or raw_text.strip() == ''
EmptyText(text) == text = "" \/ Strip(text) = ""

\* Fault: the marker is appended from 500 characters on (len(raw_text) >= 500).
Preview_Inclusive(text) ==
    (IF Len(text) > 500 THEN SubSeq(text, 1, 500) ELSE text) \o (IF Len(text) >= 500 THEN "..." ELSE "")

\* raw_text[:500] + ('...' if len(raw_text) > 500 else '')
Preview(text) ==
    (IF Len(text) > 500 THEN SubSeq(text, 1, 500) ELSE text) \o (IF Len(text) > 500 THEN "..." ELSE "")

\* ---------------------------------------------------------------- validator

\* Fault: only None counts as missing (value is None).
IsMissingValue_NoneOnly(value) == ~value.some

\* value is None or (isinstance(value, str) and value.strip() == '')
IsMissingValue(value) == ~value.some \/ (IsStr(value) /\ Strip(value.s) = "")

\* The inner loop of _find_missing_fields over one section's required keys.
RECURSIVE MissingInSection(_, _, _)
MissingInSection(section_data, section, required_keys) ==
    IF required_keys = <<>> THEN <<>>
    ELSE (IF IsMissingValue(section_data[Head(required_keys)])
          THEN << section \o "." \o Head(required_keys) >>
          ELSE <<>>) \o MissingInSection(section_data, section, Tail(required_keys))

\* The outer loop of _find_missing_fields over the sections still to visit.
RECURSIVE MissingFrom(_, _)
MissingFrom(fields, items) ==
    IF items = <<>> THEN <<>>
    ELSE MissingInSection(fields[Head(items)[1]], Head(items)[1], Head(items)[2])
         \o MissingFrom(fields, Tail(items))

_find_missing_fields(fields) == MissingFrom(fields, MANDATORY_FIELDS)

\* s.split(sep) for a one-character sep.
RECURSIVE Split(_, _)
Split(s, sep) ==
    IF HasChar(s, {sep})
    THEN << SubSeq(s, 1, FirstIndex(s, {sep}) - 1) >> \o Split(SubSeq(s, FirstIndex(s, {sep}) + 1, Len(s)), sep)
    ELSE << s >>

\* Fault: day/month/year tried before month/day/year.
DATE_FORMATS_DayFirst ==
    << [sep |-> "/", order |-> <<"d", "m", "Y">>],
       [sep |-> "/", order |-> <<"m", "d", "Y">>],
       [sep |-> "-", order |-> <<"Y", "m", "d">>],
       [sep |-> "-", order |-> <<"d", "m", "Y">>] >>

\* The formats tried, in order: "%m/%d/%Y", "%d/%m/%Y", "%Y-%m-%d", "%d-%m-%Y".
DATE_FORMATS ==
    << [sep |-> "/", order |-> <<"m", "d", "Y">>],
       [sep |-> "/", order |-> <<"d", "m", "Y">>],
       [sep |-> "-", order |-> <<"Y", "m", "d">>],
       [sep |-> "-", order |-> <<"d", "m", "Y">>] >>

\* What strptime's pattern for one directive accepts:
\*   %m  1[0-2]|0[1-9]|[1-9]      %d  3[01]|[12]\d|0[1-9]|[1-9]| [1-9]      %Y  \d\d\d\d
DirectiveMatches(d, tok) ==
    CASE d = "m" -> AllDigits(tok) /\ Len(tok) \in {1, 2} /\ DigitsVal(tok) \in 1..12
      [] d = "d" -> \/ AllDigits(tok) /\ Len(tok) \in {1, 2} /\ DigitsVal(tok) \in 1..31
                    \/ Len(tok) = 2 /\ Char(tok, 1) = " " /\ IsDigit(Char(tok, 2)) /\ Char(tok, 2) # "0"
      [] OTHER   -> AllDigits(tok) /\ Len(tok) = 4

DirectiveVal(tok) == DigitsVal(Remove(tok, " "))

IsLeap(y) == y % 4 = 0 /\ (y % 100 # 0 \/ y % 400 = 0)

DaysInMonth(y, m) ==
    IF m = 2 THEN (IF IsLeap(y) THEN 29 ELSE 28)
    ELSE IF m \in {4, 6, 9, 11} THEN 30 ELSE 31

NoDate == [ok |-> FALSE, y |-> 0, m |-> 0, d |-> 0]

\* datetime.strptime(s, fmt): the date (at midnight), or ok = FALSE for ValueError.
Strptime(s, fmt) ==
    LET toks == Split(s, fmt.sep)
        At(d) == toks[CHOOSE i \in 1..3 : fmt.order[i] = d]
    IN  IF Len(toks) # 3 \/ \E i \in 1..3 : ~DirectiveMatches(fmt.order[i], toks[i])
        THEN NoDate
        ELSE LET y == DirectiveVal(At("Y"))
                 m == DirectiveVal(At("m"))
                 d == DirectiveVal(At("d"))
             IN IF y < 1 \/ d > DaysInMonth(y, m) THEN NoDate
                ELSE [ok |-> TRUE, y |-> y, m |-> m, d |-> d]

\* parsed_date > datetime.now(): parsed_date is a midnight, so it is later than the
\* clock reading exactly when its day is after the clock's day.
DateAfter(a, clock) ==
    \/ a.y > clock.y
    \/ a.y = clock.y /\ a.m > clock.m
    \/ a.y = clock.y /\ a.m = clock.m /\ a.d > clock.d

\* The for loop over the formats: `continue` on ValueError, `break` after the first parse.
RECURSIVE DateIssuesFrom(_, _, _)
DateIssuesFrom(incident_date, fmts, clock) ==
    IF fmts = <<>> THEN <<>>
    ELSE LET parsed_date == Strptime(incident_date, Head(fmts))
         IN IF parsed_date.ok
            THEN (IF DateAfter(parsed_date, clock) THEN << "Incident date is in the future" >> ELSE <<>>)
            ELSE DateIssuesFrom(incident_date, Tail(fmts), clock)

\* strptime of a value that is not a str raises TypeError, which the outer
\* `except Exception: pass` swallows.
DateIssues(fields, clock) ==
    LET incident_date == Get(fields, "incidentInformation", "date")
    IN IF Truthy(incident_date) /\ IsStr(incident_date)
       THEN DateIssuesFrom(incident_date.s, DATE_FORMATS, clock)
       ELSE <<>>

\* Fault: damage_val <= 0 in the first test.
DamageIssues_NegativeOrZero(fields) ==
    LET est_damage == Get(fields, "assetDetails", "estimatedDamage")
        damage_val == ToAmount(est_damage.s)
    IN IF ~Truthy(est_damage) THEN <<>>
       ELSE IF damage_val.kind = "error" THEN << "Estimated damage is not a valid number" >>
       ELSE (IF FloatLT(damage_val, FromInt(0)) \/ FloatEQ(damage_val, FromInt(0))
             THEN << "Estimated damage amount is negative" >> ELSE <<>>)
            \o (IF FloatEQ(damage_val, FromInt(0)) THEN << "Estimated damage amount is zero" >> ELSE <<>>)

\* The negative-or-zero check on the estimated damage.
DamageIssues(fields) ==
    LET est_damage == Get(fields, "assetDetails", "estimatedDamage")
        damage_val == ToAmount(est_damage.s)
    IN IF ~Truthy(est_damage) THEN <<>>
       ELSE IF damage_val.kind = "error" THEN << "Estimated damage is not a valid number" >>
       ELSE (IF FloatLT(damage_val, FromInt(0)) THEN << "Estimated damage amount is negative" >> ELSE <<>>)
            \o (IF FloatEQ(damage_val, FromInt(0)) THEN << "Estimated damage amount is zero" >> ELSE <<>>)

\* Fault: diff_ratio >= 0.5.
DiffRatioExceedsHalf_Inclusive(dmg, est) ==
    /\ dmg.kind = "num" /\ est.kind = "num"
    /\ LET k == MinExp(dmg, est)
           a == Scaled(dmg, k)
           b == Scaled(est, k)
           diff == IF a > b THEN a - b ELSE b - a
           mx == IF a > b THEN a ELSE b
       IN 2 * diff >= mx

\* abs(dmg - est) / max(dmg, est) > 0.5 for dmg > 0 and est > 0. With an infinite
\* operand the quotient is inf/inf or nan/inf, a nan, and the comparison is false.
DiffRatioExceedsHalf(dmg, est) ==
    /\ dmg.kind = "num" /\ est.kind = "num"
    /\ LET k == MinExp(dmg, est)
           a == Scaled(dmg, k)
           b == Scaled(est, k)
           diff == IF a > b THEN a - b ELSE b - a
           mx == IF a > b THEN a ELSE b
       IN 2 * diff > mx

\* The discrepancy check between estimated damage and initial estimate.
DiscrepancyIssues(fields) ==
    LET est_damage == Get(fields, "assetDetails", "estimatedDamage")
        init_est == Get(fields, "otherFields", "initialEstimate")
        dmg == ToAmount(est_damage.s)
        est == ToAmount(init_est.s)
    IN IF ~(Truthy(est_damage) /\ Truthy(init_est)) THEN <<>>
       ELSE IF dmg.kind = "error" \/ est.kind = "error" THEN <<>>
       ELSE IF FloatLT(FromInt(0), dmg) /\ FloatLT(FromInt(0), est) /\ DiffRatioExceedsHalf(dmg, est)
            THEN << "Large discrepancy between estimated damage (#" \o FormatAmount(dmg)
                    \o ") and initial estimate (#" \o FormatAmount(est) \o ")" >>
            ELSE <<>>

\* Fault: the length taken without strip().
PolicyIssues_Untrimmed(fields) ==
    LET policy_num == Get(fields, "policyInformation", "policyNumber")
    IN IF Truthy(policy_num) /\ Len(policy_num.s) < 3
       THEN << "Policy number appears too short" >>
       ELSE <<>>

\* The policy-number length check.
PolicyIssues(fields) ==
    LET policy_num == Get(fields, "policyInformation", "policyNumber")
    IN IF Truthy(policy_num) /\ Len(Strip(policy_num.s)) < 3
       THEN << "Policy number appears too short" >>
       ELSE <<>>

\* clock is the reading of datetime.now() the date check takes.
_find_inconsistencies(fields, clock) ==
    DateIssues(fields, clock) \o DamageIssues(fields) \o DiscrepancyIssues(fields) \o PolicyIssues(fields)

\* FieldValidator.validate: (missing, inconsistencies).
validate(fields, clock) ==
    [missing |-> _find_missing_fields(fields), inconsistencies |-> _find_inconsistencies(fields, clock)]

\* ---------------------------------------------------------------- router

FAST_TRACK_THRESHOLD == 25000

FRAUD_KEYWORDS == <<"fraud", "fraudulent", "inconsistent", "staged", "suspicious", "fake", "fabricated">>

INJURY_KEYWORDS == <<"injury", "bodily injury", "personal injury", "medical", "hospitalization",
                     "hospital", "death", "fatality", "wounded">>

Decision(route_name, reasons) == [route |-> route_name, reasoning |-> Join(reasons, ". ")]

\* An exception that leaves route: its name in place of the route.
Raise(exception) == [route |-> exception, reasoning |-> ""]

EXCEPTIONS == {"AttributeError", "ValueError", "TypeError"}

\* (value or "").lower() raises AttributeError: value is truthy and not a str.
LowerRaises(v) == Truthy(v) /\ ~IsStr(v)

\* kw in text, the test of the fraud_found comprehension.
FraudKeywordIn(kw, text) == Contains(text, kw)

\* fraud_found = [kw for kw in FRAUD_KEYWORDS if kw in description]
FraudFound(description) == SelectSeq(FRAUD_KEYWORDS, LAMBDA kw : FraudKeywordIn(kw, description))

\* any(kw in text for kw in INJURY_KEYWORDS)
InjuryIn(text) == \E i \in 1..Len(INJURY_KEYWORDS) : Contains(text, INJURY_KEYWORDS[i])

\* Fault: the qualified names are listed as they are (no split).
FieldNames_Qualified(missing) == missing

\* field_names = [f.split('.')[-1] for f in missing_fields]
FieldNames(missing) == [i \in 1..Len(missing) |-> LastDotPart(missing[i])]

\* Fault: damage_val <= FAST_TRACK_THRESHOLD.
BelowThreshold_Inclusive(damage_val) ==
    FloatLT(damage_val, FromInt(FAST_TRACK_THRESHOLD)) \/ FloatEQ(damage_val, FromInt(FAST_TRACK_THRESHOLD))

\* damage_val < FAST_TRACK_THRESHOLD
BelowThreshold(damage_val) == FloatLT(damage_val, FromInt(FAST_TRACK_THRESHOLD))

\* Fault: no except clause, the ValueError of float() leaves route.
FastTrackTier_NoExcept(est_damage) ==
    LET damage_val == ToAmount(est_damage)
    IN IF damage_val.kind = "error" THEN Raise("ValueError")
       ELSE IF FloatLT(damage_val, FromInt(FAST_TRACK_THRESHOLD))
       THEN Decision("Fast-track",
                     << "Estimated damage #" \o FormatAmount(damage_val)
                          \o " is below fast-track threshold of #" \o Grouped(FAST_TRACK_THRESHOLD),
                        "All mandatory fields are present" >>)
       ELSE Decision("Standard Processing",
                     << "Estimated damage #" \o FormatAmount(damage_val)
                          \o " exceeds fast-track threshold of #" \o Grouped(FAST_TRACK_THRESHOLD),
                        "All mandatory fields are present. Routed to standard processing" >>)

\* Priority 4, entered with a truthy est_damage: the try block and its except clause.
FastTrackTier(est_damage) ==
    LET damage_val == ToAmount(est_damage)
    IN IF damage_val.kind = "error"
       THEN Decision("Standard Processing",
                     << "Could not parse estimated damage amount. Routing to standard processing" >>)
       ELSE IF BelowThreshold(damage_val)
       THEN Decision("Fast-track",
                     << "Estimated damage #" \o FormatAmount(damage_val)
                          \o " is below fast-track threshold of #" \o Grouped(FAST_TRACK_THRESHOLD),
                        "All mandatory fields are present" >>)
       ELSE Decision("Standard Processing",
                     << "Estimated damage #" \o FormatAmount(damage_val)
                          \o " exceeds fast-track threshold of #" \o Grouped(FAST_TRACK_THRESHOLD),
                        "All mandatory fields are present. Routed to standard processing" >>)

\* if missing_fields: the Manual Review tier is taken.
ManualReviewTaken(missing) == missing # <<>>

\* Fault: if est_damage and est_damage.strip(): a blank damage skips the tier.
DamageTierEntered_Stripped(est_damage) == Truthy(est_damage) /\ Strip(est_damage.s) # ""

\* if est_damage: the Fast-track tier is entered.
DamageTierEntered(est_damage) == Truthy(est_damage)

\* Priorities 3 to 5, reached when no fraud and no injury keyword matched.
LowerTiers(fields, missing) ==
    LET est_damage == Get(fields, "assetDetails", "estimatedDamage")
    IN IF ManualReviewTaken(missing)
       THEN Decision("Manual Review",
                     << "Missing mandatory fields: " \o Join(FieldNames(missing), ", ")
                          \o " (" \o ToString(Len(missing)) \o " field(s))" >>)
       ELSE IF DamageTierEntered(est_damage) THEN FastTrackTier(est_damage.s)
       ELSE Decision("Standard Processing",
                     << "All mandatory fields present. No special conditions detected" >>)

\* Fault: where = "description" if injury_in_desc else "claim type".
InjuryTier_DescFirst(fields, missing, description) ==
    LET claim_type == Lower(OrEmpty(Get(fields, "otherFields", "claimType")))
        injury_in_type == InjuryIn(claim_type)
        injury_in_desc == InjuryIn(Lower(description))
        where == IF injury_in_desc THEN "description" ELSE "claim type"
    IN IF injury_in_type \/ injury_in_desc
       THEN Decision("Specialist Queue", << "Injury-related claim detected in " \o where >>)
       ELSE LowerTiers(fields, missing)

\* Priority 2 and below, reached when no fraud keyword matched.
InjuryTier(fields, missing, description) ==
    LET claim_type == Lower(OrEmpty(Get(fields, "otherFields", "claimType")))
        desc_lower == Lower(description)
        injury_in_type == InjuryIn(claim_type)
        injury_in_desc == InjuryIn(desc_lower)
        where == IF injury_in_type THEN "claim type" ELSE "description"
    IN IF LowerRaises(Get(fields, "otherFields", "claimType")) THEN Raise("AttributeError")
       ELSE IF injury_in_type \/ injury_in_desc
       THEN Decision("Specialist Queue", << "Injury-related claim detected in " \o where >>)
       ELSE LowerTiers(fields, missing)

\* Fault: the injury tier is tried before the fraud tier.
route_InjuryFirst(fields, missing) ==
    LET description == Lower(OrEmpty(Get(fields, "incidentInformation", "description")))
        claim_type == Lower(OrEmpty(Get(fields, "otherFields", "claimType")))
        fraud_found == FraudFound(description)
    IN IF InjuryIn(claim_type) \/ InjuryIn(description)
       THEN InjuryTier(fields, missing, description)
       ELSE IF fraud_found # <<>>
       THEN Decision("Investigation Flag",
                     << "Description contains fraud-related keywords: " \o Join(fraud_found, ", ") >>)
       ELSE LowerTiers(fields, missing)

\* Fault: the router looks at the policy number too and sends a claim whose
\* policy number the validator finds too short to manual review.
route_HeedsPolicy(fields, missing) ==
    LET description == Lower(OrEmpty(Get(fields, "incidentInformation", "description")))
        fraud_found == FraudFound(description)
    IN IF LowerRaises(Get(fields, "incidentInformation", "description")) THEN Raise("AttributeError")
       ELSE IF fraud_found # <<>>
       THEN Decision("Investigation Flag",
                     << "Description contains fraud-related keywords: " \o Join(fraud_found, ", ") >>)
       ELSE IF PolicyIssues(fields) # <<>>
       THEN Decision("Manual Review", << "Policy number appears too short" >>)
       ELSE InjuryTier(fields, missing, description)

\* ClaimRouter.route: (route_name, reasoning).
route(fields, missing) ==
    LET description == Lower(OrEmpty(Get(fields, "incidentInformation", "description")))
        fraud_found == FraudFound(description)
    IN IF LowerRaises(Get(fields, "incidentInformation", "description")) THEN Raise("AttributeError")
       ELSE IF fraud_found # <<>>
       THEN Decision("Investigation Flag",
                     << "Description contains fraud-related keywords: " \o Join(fraud_found, ", ") >>)
       ELSE InjuryTier(fields, missing, description)

\* ---------------------------------------------------------------- inputs

(* Every amount string drawn, with what Python's float() makes of it once   *)
(* ',', the rupee sign and 'Rs' are removed and the ends stripped: kind     *)
(* "num" with the value in hundredths, "inf", "nan", or "bad" (ValueError). *)
Amount(s, kind, hundredths) == [s |-> s, kind |-> kind, hundredths |-> hundredths]

PickedAmounts ==
    { Amount("", "bad", 0),              Amount("   ", "bad", 0),
      Amount("abc", "bad", 0),           Amount("12 000", "bad", 0),
      Amount("Rs. 500", "bad", 0),       Amount("Rs.500", "num", 50),
      Amount("8,500", "num", 850000),    Amount("28,500", "num", 2850000),
      Amount("24999.99", "num", 2499999), Amount("25,000.00", "num", 2500000),
      Amount("#12,000", "num", 1200000), Amount(" Rs 4500 ", "num", 450000),
      Amount("100,000", "num", 10000000), Amount("40,000", "num", 4000000),
      Amount("80,000", "num", 8000000),  Amount("1e5", "num", 10000000),
      Amount("-100", "num", -10000),     Amount("-0.5", "num", -50),
      Amount("0.00", "num", 0),          Amount("nan", "nan", 0),
      Amount("inf", "inf", 1),           Amount("-inf", "inf", -1) }

ThresholdAmounts ==
    { Amount(ToString(25000 + d), "num", (25000 + d) * 100) : d \in (0 - MaxDelta)..MaxDelta }

UnitAmounts == { Amount(ToString(50 * k), "num", 5000 * k) : k \in 0..MaxUnits }

AmountTable == PickedAmounts \cup ThresholdAmounts \cup UnitAmounts

\* What external text says of a description or a claim type: whether it holds a
\* fraud keyword, an injury keyword (whatever the case of its letters).
Text(s, fraud, injury) == [s |-> s, fraud |-> fraud, injury |-> injury]

DescriptionTable ==
    { Text("", FALSE, FALSE),
      Text("Minor dent on rear bumper", FALSE, FALSE),
      Text("Accident looks STAGED", TRUE, FALSE),
      Text("He was defrauded", TRUE, FALSE),
      Text("Suspicious and Fake injury report", TRUE, TRUE),
      Text("Driver taken to Hospital", FALSE, TRUE),
      Text("Passenger wounded", FALSE, TRUE) }

ClaimTypeTable ==
    { Text("", FALSE, FALSE),
      Text("Auto Collision", FALSE, FALSE),
      Text("Bodily Injury", FALSE, TRUE),
      Text("MEDICAL", FALSE, TRUE),
      Text("Staged theft", TRUE, FALSE) }

\* Qualified names a caller may report missing, with the text after the last '.'.
MissingNameTable ==
    { [name |-> "policyInformation.effectiveDates", bare |-> "effectiveDates"],
      [name |-> "assetDetails.assetId",             bare |-> "assetId"],
      [name |-> "claimType",                        bare |-> "claimType"],
      [name |-> "a.b.c",                            bare |-> "c"] }

MissingNames == { e.name : e \in MissingNameTable }

RECURSIVE SeqsUpTo(_, _)
SeqsUpTo(S, n) ==
    IF n = 0 THEN { <<>> }
    ELSE SeqsUpTo(S, n - 1) \cup { Append(q, x) : q \in SeqsUpTo(S, n - 1), x \in S }

MissingLists == SeqsUpTo(MissingNames, MaxMissing)

Values(table) == { None } \cup { Str(e.s) : e \in table }

\* The field sets the router is called with directly.
RouterFieldSets ==
    { With(With(With(get_empty_fields, "incidentInformation", "description", d),
                "otherFields", "claimType", c),
           "assetDetails", "estimatedDamage", a) :
        d \in Values(DescriptionTable), c \in Values(ClaimTypeTable),
        a \in Values(PickedAmounts \cup ThresholdAmounts) }

\* The day validate runs.
Clock(y, m, d) == [y |-> y, m |-> m, d |-> d]

Today == Clock(2026, 11, 6)

NowValues == { Today }

\* Incident dates drawn, with the date strptime gives under the first of the four
\* formats that accepts the string (ok = FALSE: none does).
Date(s, ok, y, m, d) == [s |-> s, ok |-> ok, y |-> y, m |-> m, d |-> d]

DateTable ==
    { Date("", FALSE, 0, 0, 0),            Date("garbage", FALSE, 0, 0, 0),
      Date("2030-02-30", FALSE, 0, 0, 0),  Date("01/02/2030", TRUE, 2030, 1, 2),
      Date("11/06/2026", TRUE, 2026, 11, 6), Date("11/07/2026", TRUE, 2026, 11, 7),
      Date("07/11/2026", TRUE, 2026, 7, 11), Date("12/06/2026", TRUE, 2026, 12, 6),
      Date("13/01/2020", TRUE, 2020, 1, 13), Date("13/12/2030", TRUE, 2030, 12, 13),
      Date("2024-02-29", TRUE, 2024, 2, 29), Date("31-12-2099", TRUE, 2099, 12, 31),
      Date("03/15/2024", TRUE, 2024, 3, 15) }

\* Policy numbers drawn, with the length of the trimmed string.
PolicyTable ==
    { [s |-> "", trimmed |-> 0],    [s |-> "  ", trimmed |-> 0],
      [s |-> "AB", trimmed |-> 2],  [s |-> " AB ", trimmed |-> 2],
      [s |-> "ABC", trimmed |-> 3], [s |-> "POL-2024-78456", trimmed |-> 14] }

\* Values drawn for the ten slots no consistency check reads.
FillTable == { [s |-> ""], [s |-> " \t"], [s |-> "n/a"] }

\* The strings drawn that are empty or hold only whitespace.
BlankStrings == { "", "  ", "   ", " \t" }

Slot(section, key) == [section |-> section, key |-> key]

Slots ==
    { Slot("policyInformation", k) : k \in {"policyNumber", "policyholderName", "effectiveDates"} }
    \cup { Slot("incidentInformation", k) : k \in {"date", "time", "location", "description"} }
    \cup { Slot("involvedParties", k) : k \in {"claimant", "thirdParties", "contactDetails"} }
    \cup { Slot("assetDetails", k) : k \in {"assetType", "assetId", "estimatedDamage"} }
    \cup { Slot("otherFields", k) : k \in {"claimType", "attachments", "initialEstimate"} }

SlotValues(slot) ==
    CASE slot.key \in {"estimatedDamage", "initialEstimate"} -> Values(PickedAmounts \cup UnitAmounts)
      [] slot.key = "date"         -> Values(DateTable)
      [] slot.key = "policyNumber" -> Values(PolicyTable)
      [] slot.key = "description"  -> Values(DescriptionTable)
      [] slot.key = "claimType"    -> Values(ClaimTypeTable)
      [] OTHER                     -> Values(FillTable)

\* A field set with every slot filled, as extraction makes of a complete notice.
CompleteFields ==
    [ policyInformation   |-> [policyNumber |-> Str("POL-2024-78456"), policyholderName |-> Str("Rajesh Kumar"),
                               effectiveDates |-> Str("01/01/2024 to 31/12/2024")],
      incidentInformation |-> [date |-> Str("03/15/2024"), time |-> Str("10:30 AM"),
                               location |-> Str("MG Road, Pune"), description |-> Str("Minor dent on rear bumper")],
      involvedParties     |-> [claimant |-> Str("Rajesh Kumar"), thirdParties |-> Str("None"),
                               contactDetails |-> Str("9876543210, rajesh@example.com")],
      assetDetails        |-> [assetType |-> Str("Sedan"), assetId |-> Str("MH12AB1234567890X"),
                               estimatedDamage |-> Str("8,500")],
      otherFields         |-> [claimType |-> Str("Auto Collision"), attachments |-> Str("Photos"),
                               initialEstimate |-> Str("8,500")] ]

\* The field sets validate is called with: an all-absent or a complete field set
\* with two slots rewritten.
SlotChoices == UNION { { <<s, v>> : v \in SlotValues(s) } : s \in Slots }

ValidatorFieldSets ==
    { With(With(base, c1[1].section, c1[1].key, c1[2]), c2[1].section, c2[1].key, c2[2]) :
        base \in { get_empty_fields, CompleteFields }, c1 \in SlotChoices, c2 \in SlotChoices }

\* OPENAI_API_KEY: not set, or set.
ApiKeys == { "", "sk-test" }

\* JSON object with no member but this one.
Member(key, value) == JObject(<<key>>, [k \in {key} |-> value])

\* A response with every section and every field: strings and nulls only.
CompleteResponse ==
    JObject(<<"policyInformation", "incidentInformation", "involvedParties", "assetDetails", "otherFields">>,
      [ policyInformation   |-> JObject(<<"policyNumber", "policyholderName", "effectiveDates">>,
            [policyNumber |-> JString("POL-1"), policyholderName |-> JString("Asha Rao"),
             effectiveDates |-> JNull]),
        incidentInformation |-> JObject(<<"date", "time", "location", "description">>,
            [date |-> JString("01/02/2026"), time |-> JNull, location |-> JString("Pune"),
             description |-> JString("Minor dent")]),
        involvedParties     |-> JObject(<<"claimant", "thirdParties", "contactDetails">>,
            [claimant |-> JString("Asha Rao"), thirdParties |-> JNull, contactDetails |-> JNull]),
        assetDetails        |-> JObject(<<"assetType", "assetId", "estimatedDamage">>,
            [assetType |-> JString("Sedan"), assetId |-> JNull, estimatedDamage |-> JString("8,500")]),
        otherFields         |-> JObject(<<"claimType", "attachments", "initialEstimate">>,
            [claimType |-> JString("Auto"), attachments |-> JNull, initialEstimate |-> JString("8,500")]) ])

\* A response with a field and a section the schema does not have.
ExtraKeysResponse ==
    JObject(<<"policyInformation", "notes">>,
      [ policyInformation |-> JObject(<<"policyNumber", "insurer">>,
            [policyNumber |-> JString("POL-9"), insurer |-> JString("Acme")]),
        notes |-> Member("text", JString("n/a")) ])

\* Responses whose field values are numbers, booleans, lists and objects.
TypedResponse ==
    JObject(<<"incidentInformation", "assetDetails", "otherFields">>,
      [ incidentInformation |-> JObject(<<"description", "date">>,
            [description |-> JNumber("5", FALSE), date |-> JNumber("20260201", FALSE)]),
        assetDetails |-> Member("estimatedDamage", JNumber("8500", FALSE)),
        otherFields |-> JObject(<<"attachments", "initialEstimate">>,
            [attachments |-> JArray(<<JString("a.jpg")>>), initialEstimate |-> JBool(TRUE)]) ])

TypedFalsyResponse ==
    JObject(<<"incidentInformation", "assetDetails", "otherFields">>,
      [ incidentInformation |-> Member("description", JNumber("0", TRUE)),
        assetDetails |-> Member("estimatedDamage", JNumber("8500.5", FALSE)),
        otherFields |-> JObject(<<"claimType", "attachments">>,
            [claimType |-> JBool(FALSE), attachments |-> JArray(<<>>)]) ])

ListClaimTypeResponse ==
    Member("otherFields", JObject(<<"claimType", "attachments">>,
        [claimType |-> JArray(<<JString("injury")>>),
         attachments |-> Member("count", JNumber("2", FALSE))]))

\* What the service is drawn to answer.  Each entry says whether the attempt
\* failed (fails: no answer, an answer that is not JSON, or JSON that is not an
\* object of section objects) and whether the answer has a field value that is
\* neither null nor a string (typed).
Answer(reply, fails, typed) == [reply |-> reply, fails |-> fails, typed |-> typed]

LLMTable ==
    { Answer(ReplyError("APIConnectionError"), TRUE, FALSE),
      Answer(ReplyText, TRUE, FALSE),
      Answer(ReplyJson(JArray(<<>>)), TRUE, FALSE),
      Answer(ReplyJson(JNumber("5", FALSE)), TRUE, FALSE),
      Answer(ReplyJson(JString("see policyInformation")), TRUE, FALSE),
      Answer(ReplyJson(JString("hello")), TRUE, FALSE),
      Answer(ReplyJson(Member("policyInformation", JNull)), TRUE, FALSE),
      Answer(ReplyJson(Member("policyInformation", JString("oops"))), TRUE, FALSE),
      Answer(ReplyJson(Member("policyInformation", JArray(<<JString("policyNumber")>>))), TRUE, FALSE),
      Answer(ReplyJson(JEmptyObject), FALSE, FALSE),
      Answer(ReplyJson(CompleteResponse), FALSE, FALSE),
      Answer(ReplyJson(ExtraKeysResponse), FALSE, FALSE),
      Answer(ReplyJson(TypedResponse), FALSE, TRUE),
      Answer(ReplyJson(TypedFalsyResponse), FALSE, TRUE),
      Answer(ReplyJson(ListClaimTypeResponse), FALSE, TRUE) }

\* The answers drawn for a run: none is asked for without a key.
Replies(key) == IF key = "" THEN { NoReply } ELSE { a.reply : a \in LLMTable }

\* A notice in the layout text extraction gives of the sample forms.
NoticeText ==
    "POLICY NUMBER CARRIER\nPOL-2024-78456 National Insurance\n"
    \o "POLICYHOLDER NAME (First, Middle, Last) EFFECTIVE DATES\nRajesh Kumar 01/04/2025 to 31/03/2026\n"
    \o "CONTACT PHONE\n+91-98765 43210\nEMAIL ADDRESS\nrajesh@example.com\n"
    \o "DATE OF LOSS (DD/MM/YYYY) TIME OF LOSS\n01/02/2026 10:30 AM\n"
    \o "LOCATION OF LOSS\nMG Road, Pune\n"
    \o "DESCRIPTION OF ACCIDENT\nMinor dent on rear bumper.\nINSURED VEHICLE\n"
    \o "ASSET TYPE YEAR / MAKE\nSedan  2020 Honda\n"
    \o "V.I.N. / ASSET ID\nMA3FJEB1S00123456\n"
    \o "THIRD PARTY NAME THIRD PARTY VEHICLE\nNone\n"
    \o "REPORTED BY DATE REPORTED\nRajesh Kumar (Self) 02/02/2026\n"
    \o "ESTIMATED DAMAGE (INR) INITIAL ESTIMATE (INR)\n8,500 9,000\n"
    \o "CLAIM TYPE ATTACHMENTS\nAuto - Property Damage Photos (3)\n"

\* The raw texts drawn for extraction, each with the fields the rule engine
\* fills and, of those, the fields it fills with the empty string.
Raw(text, filled, empty) == [text |-> text, filled |-> filled, empty |-> empty]

AllFields ==
    { "policyNumber", "policyholderName", "effectiveDates", "date", "time", "location",
      "description", "claimant", "thirdParties", "contactDetails", "assetType", "assetId",
      "estimatedDamage", "claimType", "attachments", "initialEstimate" }

RawTextTable ==
    { Raw("", {}, {}),
      Raw("   ", {}, {}),
      Raw("garbage", {}, {}),
      Raw(" \n\t ", {}, {}),
      Raw(NoticeText, AllFields, {}),
      Raw("Policy Number: POL-2024-78456\n", {"policyNumber"}, {}),
      Raw("Policy Number: POL-2024-78456\nEstimated Damage: 8,500\n", {"policyNumber", "estimatedDamage"}, {}),
      Raw("POLICY NUMBER CARRIER\nAB\n", {"policyNumber"}, {}),
      Raw("LOCATION OF LOSS\n \n", {"location"}, {"location"}),
      Raw("LOCATION OF LOSS\nMG Road, Pune\n", {"location"}, {}),
      Raw("ESTIMATED DAMAGE (INR) INITIAL ESTIMATE (INR)\n,\n",
          {"estimatedDamage", "initialEstimate"}, {"estimatedDamage", "initialEstimate"}),
      Raw("ESTIMATED DAMAGE (INR) INITIAL ESTIMATE (INR)\n8,500 9,000\n",
          {"estimatedDamage", "initialEstimate"}, {}),
      Raw("ESTIMATED DAMAGE (INR) INITIAL ESTIMATE (INR)\n30,000\n",
          {"estimatedDamage", "initialEstimate"}, {}),
      Raw("CLAIM TYPE ATTACHMENTS\nPhotos (3)\n", {"attachments"}, {}),
      Raw("CLAIM TYPE ATTACHMENTS\n-\n", {"claimType"}, {}),
      Raw("CLAIM TYPE ATTACHMENTS\nInjury - Hospital records\n", {"claimType", "attachments"}, {}),
      Raw("ASSET TYPE YEAR / MAKE\n \n", {"assetType"}, {"assetType"}),
      Raw("ASSET TYPE YEAR / MAKE\nSedan  2020 Honda\n", {"assetType"}, {}),
      Raw("DESCRIPTION OF ACCIDENT\nAccident looks staged.\nINSURED VEHICLE\n",
          {"policyholderName", "description", "claimant"}, {}),
      Raw("Description:  \n", {"description"}, {"description"}),
      Raw("POLICYHOLDER NAME EFFECTIVE DATES\nRajesh Kumar 01/04/2025 to 31/03/2026\n",
          {"policyholderName", "effectiveDates", "claimant"}, {}),
      Raw("REPORTED BY DATE REPORTED\nRavi (Self) 02/02/2026\n", {"claimant"}, {}),
      Raw("REPORTED BY DATE REPORTED\nAl\n", {}, {}),
      Raw("POLICYHOLDER NAME\nAsha Rao\nREPORTED BY DATE REPORTED\n02/02/2026\n",
          {"policyholderName", "claimant"}, {}),
      Raw("POLICYHOLDER NAME\nAsha Rao\nREPORTED BY DATE REPORTED\nRavi Mehta 02/02/2026\n",
          {"policyholderName", "claimant"}, {}),
      Raw("THIRD PARTY NAME\nN/A\n", {"thirdParties"}, {}),
      Raw("CONTACT PHONE\n+91-98765 43210\nEMAIL ADDRESS\nravi@example.com\n", {"contactDetails"}, {}),
      Raw("Date of Loss: 2026-02-01 9:05pm\n", {"date", "time"}, {}),
      Raw("V.I.N. / ASSET ID\nMA3FJEB1S00123456\n", {"assetId"}, {}),
      Raw("INITIAL ESTIMATE\n,\n", {"initialEstimate"}, {"initialEstimate"}) }

RawTexts == { r.text : r \in RawTextTable }

\* The texts of the table with a "REPORTED BY  DATE REPORTED" line.
ReportedByTexts ==
    { NoticeText,
      "REPORTED BY DATE REPORTED\nRavi (Self) 02/02/2026\n",
      "REPORTED BY DATE REPORTED\nAl\n",
      "POLICYHOLDER NAME\nAsha Rao\nREPORTED BY DATE REPORTED\n02/02/2026\n",
      "POLICYHOLDER NAME\nAsha Rao\nREPORTED BY DATE REPORTED\nRavi Mehta 02/02/2026\n" }

\* The files drawn for a run of the pipeline.
Documents ==
    { TextFile("claim.txt", "Policy Number: POL-2024-78456\n"),
      TextFile("NOTICE.TXT", "Policy Number: POL-2024-78456\nEstimated Damage: 8,500\n"),
      PdfFile("loss.pdf", <<Str("Policy Number: POL-2024-78456"), None, Str("\n")>>),
      Latin1File("blank.txt", " \n\t "),
      TextFile("empty.txt", ""),
      PdfFile("scan.pdf", <<None, Str("")>>),
      DamagedPdf("torn.pdf"),
      TextFile("claim.docx", "Policy Number: POL-2024-78456\n"),
      MissingFile("gone.txt") }

\* uuid.uuid4().hex[:8].upper(): two of the 16^8 ids it can give.
ClaimIds == { "CLM-0A1B2C3D", "CLM-9F8E7D6C" }

\* ---------------------------------------------------------------- state machine

NoResult ==
    /\ missing_fields = <<>>
    /\ inconsistencies = <<>>
    /\ recommendedRoute = ""
    /\ reasoning = ""

\* No exception has left the run.
NoFailure == [step |-> 0, exception |-> ""]

Failure(step, exception) == [step |-> step, exception |-> exception]

\* processed_claims = {}
EmptyStore == [id \in {} |-> 0]

\* The threads of the server that take submissions.
Callers == {"t1", "t2"}

\* A thread with no request: nothing of a run is kept.
NoRequest == [pc |-> "idle", claim_id |-> "", filename |-> "", raw_text |-> "", result |-> <<>>]

NoCallers == [c \in Callers |-> NoRequest]

\* The validator or the router called outside a run of the pipeline.
NoRun ==
    /\ document = NoDocument
    /\ api_key = ""
    /\ llm_response = NoReply
    /\ raw_text = ""
    /\ claim_id = ""
    /\ failure = NoFailure
    /\ processed_claims = EmptyStore
    /\ key_order = <<>>
    /\ claims_list = <<>>
    /\ callers = NoCallers
    /\ submissions = 0

\* ClaimRouter.route called with a field set and a missing list of the caller's.
InitRouter ==
    /\ extracted_fields \in RouterFieldSets
    /\ missing_fields \in MissingLists
    /\ inconsistencies = <<>>
    /\ recommendedRoute = ""
    /\ reasoning = ""
    /\ now = Today
    /\ pc = "call"
    /\ NoRun

\* Steps 3 and 4 of _run_pipeline on a field set step 2 produced.
InitValidate ==
    /\ extracted_fields \in ValidatorFieldSets
    /\ now \in NowValues
    /\ NoResult
    /\ pc = "extracted"
    /\ NoRun

\* Fault: validate writes the damage amount back without the surrounding whitespace.
Validate_InPlace ==
    /\ pc = "extracted"
    /\ \E result \in { validate(extracted_fields, now) } :
          /\ missing_fields' = result.missing
          /\ inconsistencies' = result.inconsistencies
    /\ extracted_fields' =
          IF Truthy(Get(extracted_fields, "assetDetails", "estimatedDamage"))
          THEN With(extracted_fields, "assetDetails", "estimatedDamage",
                    Str(Strip(Get(extracted_fields, "assetDetails", "estimatedDamage").s)))
          ELSE extracted_fields
    /\ pc' = "validated"
    /\ UNCHANGED <<recommendedRoute, reasoning, now, raw_text, failure>>
    /\ UNCHANGED <<request, store, callers>>

\* missing_fields, inconsistencies = field_validator.validate(extracted_fields)
Validate ==
    /\ pc = "extracted"
    /\ \E result \in { validate(extracted_fields, now) } :
          /\ missing_fields' = result.missing
          /\ inconsistencies' = result.inconsistencies
    /\ pc' = "validated"
    /\ UNCHANGED <<extracted_fields, recommendedRoute, reasoning, now, raw_text, failure>>
    /\ UNCHANGED <<request, store, callers>>

\* route, reasoning = claim_router.route(extracted_fields, missing_fields); an
\* exception leaves _run_pipeline at step 4.
Route ==
    /\ pc \in {"call", "validated"}
    /\ \E result \in { route(extracted_fields, missing_fields) } :
          IF result.route \in EXCEPTIONS
          THEN /\ pc' = "failed"
               /\ failure' = Failure(4, result.route)
               /\ UNCHANGED <<recommendedRoute, reasoning>>
          ELSE /\ pc' = "routed"
               /\ recommendedRoute' = result.route
               /\ reasoning' = result.reasoning
               /\ UNCHANGED failure
    /\ UNCHANGED <<extracted_fields, missing_fields, inconsistencies, now, raw_text>>
    /\ UNCHANGED <<request, store, callers>>

\* The answers drawn for a run of the whole pipeline.
PipelineReplies(key) ==
    IF key = "" THEN { NoReply }
    ELSE { ReplyText, ReplyJson(CompleteResponse), ReplyJson(TypedResponse) }

\* LLMProcessor.extract_fields called with a raw text.
InitExtract ==
    /\ raw_text \in RawTexts
    /\ api_key \in ApiKeys
    /\ llm_response \in Replies(api_key)
    /\ extracted_fields = get_empty_fields
    /\ NoResult
    /\ now = Today
    /\ pc = "text"
    /\ document = NoDocument
    /\ claim_id = ""
    /\ failure = NoFailure
    /\ processed_claims = EmptyStore
    /\ key_order = <<>>
    /\ claims_list = <<>>
    /\ callers = NoCallers
    /\ submissions = 0

\* The application after start-up: no claim processed.
InitPipeline ==
    /\ api_key \in ApiKeys
    /\ extracted_fields = get_empty_fields
    /\ NoResult
    /\ now = Today
    /\ pc = "idle"
    /\ document = NoDocument
    /\ llm_response = NoReply
    /\ raw_text = ""
    /\ claim_id = ""
    /\ failure = NoFailure
    /\ processed_claims = EmptyStore
    /\ key_order = <<>>
    /\ claims_list = <<>>
    /\ callers = NoCallers
    /\ submissions = 0

\* No run of the pipeline is under way.
AtRest == pc \in {"idle", "done", "failed"}

\* _run_pipeline called with a file: the claim id and step 1.  An exception of
\* extract, or the ValueError raised for a text without content, ends the run.
Submit ==
    /\ AtRest
    /\ submissions < MaxSubmissions
    /\ \E doc \in Documents, id \in ClaimIds :
          LET text == extract(doc)
          IN /\ document' = doc
             /\ claim_id' = id
             /\ IF text.raised # ""
                THEN /\ pc' = "failed"
                     /\ failure' = Failure(1, text.raised)
                     /\ llm_response' = NoReply
                     /\ UNCHANGED raw_text
                ELSE /\ raw_text' = text.text
                     /\ IF EmptyText(text.text)
                        THEN /\ pc' = "failed"
                             /\ failure' = Failure(1, "ValueError")
                             /\ llm_response' = NoReply
                        ELSE /\ pc' = "text"
                             /\ failure' = NoFailure
                             /\ llm_response' \in PipelineReplies(api_key)
    /\ submissions' = submissions + 1
    /\ claims_list' = <<>>
    /\ UNCHANGED <<extracted_fields, missing_fields, inconsistencies, recommendedRoute, reasoning,
                   now, api_key, processed_claims, key_order, callers>>

\* extracted_fields = llm_processor.extract_fields(raw_text)
ExtractFields ==
    /\ pc = "text"
    /\ extracted_fields' = extract_fields(raw_text, api_key, llm_response)
    /\ pc' = "extracted"
    /\ UNCHANGED <<missing_fields, inconsistencies, recommendedRoute, reasoning, now, raw_text, failure>>
    /\ UNCHANGED <<request, store, callers>>

\* The claim record _run_pipeline builds.
Record(id, display_name, at, fields, missing, issues, to, why, text) ==
    [ claimId          |-> id,
      filename         |-> display_name,
      processedAt      |-> at,
      extractedFields  |-> fields,
      missingFields    |-> missing,
      inconsistencies  |-> issues,
      recommendedRoute |-> to,
      reasoning        |-> why,
      rawTextPreview   |-> Preview(text) ]

\* The record of the run; processedAt, read from the clock, is the number of
\* runs started so far.
Result ==
    Record(claim_id, document.name, submissions, extracted_fields, missing_fields, inconsistencies,
           recommendedRoute, reasoning, raw_text)

\* processed_claims[claim_id] = result
Put(claims, id, result) ==
    [ k \in DOMAIN claims \cup {id} |-> IF k = id THEN result ELSE claims[k] ]

\* A new key goes to the end of the dict; a key it has keeps its place.
PutKey(order, id) ==
    IF \E i \in 1..Len(order) : order[i] = id THEN order ELSE Append(order, id)

\* Fault: the record is built and stored after validation, before the router is called.
Store_Early ==
    /\ pc = "validated"
    /\ processed_claims' = Put(processed_claims, claim_id, Result)
    /\ key_order' = PutKey(key_order, claim_id)
    /\ pc' = "done"
    /\ UNCHANGED <<extracted_fields, missing_fields, inconsistencies, recommendedRoute, reasoning,
                   now, raw_text, failure, claims_list, callers>>
    /\ UNCHANGED request

Store ==
    /\ pc = "routed"
    /\ processed_claims' = Put(processed_claims, claim_id, Result)
    /\ key_order' = PutKey(key_order, claim_id)
    /\ pc' = "done"
    /\ UNCHANGED <<extracted_fields, missing_fields, inconsistencies, recommendedRoute, reasoning,
                   now, raw_text, failure, claims_list, callers>>
    /\ UNCHANGED request

\* The place in the sorted list of the record of key number k: behind every
\* later record and behind every earlier key of the same processedAt.
ListingPlace(order, claims, k) ==
    1 + Cardinality({ j \in 1..Len(order) :
                        \/ claims[order[j]].processedAt > claims[order[k]].processedAt
                        \/ claims[order[j]].processedAt = claims[order[k]].processedAt /\ j < k })

\* Fault: claims_list.sort(key=...) without reverse=True, the oldest first.
Listing_Ascending(order, claims) ==
    [ i \in 1..Len(order) |->
        claims[order[CHOOSE k \in 1..Len(order) :
            i = 1 + Cardinality({ j \in 1..Len(order) :
                      \/ claims[order[j]].processedAt < claims[order[k]].processedAt
                      \/ claims[order[j]].processedAt = claims[order[k]].processedAt /\ j < k })]] ]

\* list(processed_claims.values()) sorted by processedAt, latest first.  The
\* values come in the order of the keys and list.sort is stable, also with
\* reverse=True: records of one processedAt stay in the order of the dict.
Listing(order, claims) ==
    [ i \in 1..Len(order) |->
        claims[order[CHOOSE k \in 1..Len(order) : ListingPlace(order, claims, k) = i]] ]

\* get_claims, answered between two runs.
GetClaims ==
    /\ AtRest
    /\ claims_list' = Listing(key_order, processed_claims)
    /\ UNCHANGED <<extracted_fields, missing_fields, inconsistencies, recommendedRoute, reasoning,
                   now, pc, raw_text, failure, processed_claims, key_order, callers>>
    /\ UNCHANGED request

\* ---- runs in the threads of the server (app.run serves each request in a
\* thread of its own): what a run keeps is local to its thread, and it meets
\* the other runs at the claim store only.

\* The files drawn for runs that overlap.
ConcurrentDocuments == { doc \in Documents : doc.name \in {"claim.txt", "blank.txt"} }

\* The answers drawn for runs that overlap.
ConcurrentReplies(key) == IF key = "" THEN { NoReply } ELSE { ReplyJson(CompleteResponse) }

\* The variables of the run the application takes when its runs do not overlap.
sequential == <<extracted_fields, missing_fields, inconsistencies, recommendedRoute, reasoning,
                now, pc, document, llm_response, raw_text, claim_id, failure>>

\* _run_pipeline called in thread c: the claim id and step 1.  When step 1
\* raises, the request is answered with the error and the thread keeps nothing.
Begin(c) ==
    /\ callers[c].pc \in {"idle", "done"}
    /\ submissions < MaxSubmissions
    /\ \E doc \in ConcurrentDocuments, id \in ClaimIds :
          \E text \in { extract(doc) } :
              callers' = [callers EXCEPT ![c] =
                  IF text.raised # "" THEN NoRequest
                  ELSE IF EmptyText(text.text) THEN NoRequest
                  ELSE [pc |-> "text", claim_id |-> id, filename |-> doc.name,
                        raw_text |-> text.text, result |-> <<>>]]
    /\ submissions' = submissions + 1
    /\ UNCHANGED <<sequential, api_key, store>>

\* Steps 2 to 4 in thread c and the record built from them, the clock read for
\* processedAt.
Process(c) ==
    /\ callers[c].pc = "text"
    /\ \E reply \in ConcurrentReplies(api_key) :
          \E fields \in { extract_fields(callers[c].raw_text, api_key, reply) } :
              \E checked \in { validate(fields, now) } :
                  \E routed \in { route(fields, checked.missing) } :
                      callers' = [callers EXCEPT ![c] =
                          IF routed.route \in EXCEPTIONS THEN NoRequest
                          ELSE [pc |-> "built", claim_id |-> callers[c].claim_id,
                                filename |-> callers[c].filename,
                                raw_text |-> callers[c].raw_text,
                                result |-> Record(callers[c].claim_id, callers[c].filename,
                                                  submissions, fields, checked.missing,
                                                  checked.inconsistencies, routed.route,
                                                  routed.reasoning, callers[c].raw_text)]]
    /\ UNCHANGED <<sequential, request, store>>

\* processed_claims[claim_id] = result in thread c, and the return of the record.
Insert(c) ==
    /\ callers[c].pc = "built"
    /\ processed_claims' = Put(processed_claims, callers[c].claim_id, callers[c].result)
    /\ key_order' = PutKey(key_order, callers[c].claim_id)
    /\ callers' = [callers EXCEPT ![c].pc = "done"]
    /\ UNCHANGED <<sequential, request, claims_list>>

\* get_claims, answered in a thread of its own whatever the other threads are at.
ListClaims ==
    /\ claims_list' = Listing(key_order, processed_claims)
    /\ UNCHANGED <<sequential, request, processed_claims, key_order, callers>>

Starts == \E c \in Callers : Begin(c)

Processes == \E c \in Callers : Process(c)

Inserts == \E c \in Callers : Insert(c)

NextConcurrent == Starts \/ Processes \/ Inserts \/ ListClaims

SpecConcurrent == InitPipeline /\ [][NextConcurrent]_vars

\* ---- a run on a text about as long as the preview

\* The notice cut off after 500 characters, a few less and a few more.
LongTexts == { SubSeq(NoticeText, 1, n) : n \in (500 - MaxOver)..(500 + MaxOver) }

\* _run_pipeline after step 1 has extracted such a text from a PDF of one page.
InitRecord ==
    /\ raw_text \in LongTexts
    /\ document = PdfFile("notice.pdf", <<Str(raw_text)>>)
    /\ api_key \in ApiKeys
    /\ llm_response \in PipelineReplies(api_key)
    /\ claim_id \in ClaimIds
    /\ extracted_fields = get_empty_fields
    /\ NoResult
    /\ now = Today
    /\ pc = "text"
    /\ failure = NoFailure
    /\ processed_claims = EmptyStore
    /\ key_order = <<>>
    /\ claims_list = <<>>
    /\ callers = NoCallers
    /\ submissions = 1

NextRecord == ExtractFields \/ Validate \/ Route \/ Store

SpecRecord == InitRecord /\ [][NextRecord]_vars

NextRouter == Route

NextValidate == Validate \/ Route

SpecRouter == InitRouter /\ [][NextRouter]_vars

NextExtract == ExtractFields \/ Validate \/ Route

NextPipeline == Submit \/ ExtractFields \/ Validate \/ Route \/ Store \/ GetClaims

SpecValidate == InitValidate /\ [][NextValidate]_vars

SpecExtract == InitExtract /\ [][NextExtract]_vars

SpecPipeline == InitPipeline /\ [][NextPipeline]_vars

\* ---------------------------------------------------------------- properties

F_description == extracted_fields.incidentInformation.description

F_claimType == extracted_fields.otherFields.claimType

F_estimatedDamage == extracted_fields.assetDetails.estimatedDamage

F_initialEstimate == extracted_fields.otherFields.initialEstimate

Routed == pc = "routed"

\* route left with an exception.
RouteRaised == pc = "failed" /\ failure.step = 4

Validated == pc \in {"validated", "routed"}

\* The table entry of a drawn value (None reads as the empty text).
Entry(table, v) == CHOOSE e \in table : e.s = v.s

DescFraud == Entry(DescriptionTable, F_description).fraud

DescInjury == Entry(DescriptionTable, F_description).injury

TypeInjury == Entry(ClaimTypeTable, F_claimType).injury

NoKeyword == ~DescFraud /\ ~DescInjury /\ ~TypeInjury

Damage == Entry(AmountTable, F_estimatedDamage)

Estimate == Entry(AmountTable, F_initialEstimate)

StartsWith(s, prefix) == Len(s) >= Len(prefix) /\ SubSeq(s, 1, Len(prefix)) = prefix

Reported(message) == \E i \in 1..Len(inconsistencies) : inconsistencies[i] = message

DefaultReasoning == "All mandatory fields present. No special conditions detected"

UnparseableReasoning == "Could not parse estimated damage amount. Routing to standard processing"

\* C1: a fraud keyword in the incident description (in any letter case) routes
\* the claim to Investigation Flag, whatever the claim type, the missing list and
\* the damage amount are.
C1_FraudBeatsAll == Routed /\ DescFraud => recommendedRoute = "Investigation Flag"

\* A description with a fraud and an injury keyword, an injury claim type, a
\* non-empty missing list and a damage below the threshold: still flagged.
C1_Witness ==
    /\ Routed /\ DescFraud /\ DescInjury /\ TypeInjury
    /\ missing_fields # <<>>
    /\ F_estimatedDamage = Str("8,500")
    /\ recommendedRoute = "Investigation Flag"

\* C2: for every field set and every missing list, what route returns is one of
\* the five routes (never an exception leaving the call) with a non-empty
\* reasoning.
C2_RouterTotal ==
    (Routed \/ RouteRaised) =>
        /\ Routed
        /\ recommendedRoute \in {"Investigation Flag", "Specialist Queue", "Manual Review",
                                 "Fast-track", "Standard Processing"}
        /\ reasoning # ""

\* A damage string float() rejects, on a complete claim without keywords: the
\* ValueError is turned into a routing decision.
C2_Witness ==
    /\ Routed /\ NoKeyword /\ missing_fields = <<>>
    /\ F_estimatedDamage = Str("abc")
    /\ recommendedRoute = "Standard Processing"
    /\ reasoning = UnparseableReasoning

\* C3: without a fraud keyword in the description, an injury keyword in the claim
\* type or in the description routes to Specialist Queue, also with fields
\* missing; the reasoning names the claim type whenever the claim type matched
\* and the description only when the claim type did not.
C3_SpecialistQueue ==
    Routed /\ ~DescFraud /\ (TypeInjury \/ DescInjury) =>
        /\ recommendedRoute = "Specialist Queue"
        /\ reasoning = "Injury-related claim detected in "
                         \o (IF TypeInjury THEN "claim type" ELSE "description")

\* Both the claim type and the description match, and fields are missing.
C3_Witness ==
    /\ Routed /\ ~DescFraud /\ TypeInjury /\ DescInjury
    /\ missing_fields # <<>>
    /\ recommendedRoute = "Specialist Queue"
    /\ reasoning = "Injury-related claim detected in claim type"

BareName(name) == (CHOOSE e \in MissingNameTable : e.name = name).bare

RECURSIVE CommaList(_)
CommaList(names) ==
    IF Len(names) = 1 THEN BareName(names[1])
    ELSE BareName(names[1]) \o ", " \o CommaList(Tail(names))

\* C4: without a fraud or injury keyword, a non-empty missing list routes to
\* Manual Review whatever the damage is; the reasoning lists the bare field names
\* in the order of the missing list, then the length of the list.
C4_ManualReview ==
    Routed /\ NoKeyword /\ missing_fields # <<>> =>
        /\ recommendedRoute = "Manual Review"
        /\ reasoning = "Missing mandatory fields: " \o CommaList(missing_fields)
                         \o " (" \o ToString(Len(missing_fields)) \o " field(s))"

\* Two names, the first with two dots, and a damage that would be fast-tracked.
C4_Witness ==
    /\ Routed /\ NoKeyword
    /\ missing_fields = <<"a.b.c", "assetDetails.assetId">>
    /\ F_estimatedDamage = Str("8,500")
    /\ recommendedRoute = "Manual Review"
    /\ reasoning = "Missing mandatory fields: c, assetId (2 field(s))"

\* The damage parses to a number strictly below 25000 (minus infinity included).
DamageBelow ==
    \/ Damage.kind = "num" /\ Damage.hundredths < 2500000
    \/ Damage.kind = "inf" /\ Damage.hundredths < 0

\* The damage parses to 25000 or more (plus infinity included).
DamageAtOrAbove ==
    \/ Damage.kind = "num" /\ Damage.hundredths >= 2500000
    \/ Damage.kind = "inf" /\ Damage.hundredths > 0

FastTrackDecision ==
    /\ recommendedRoute = "Fast-track" <=> DamageBelow
    /\ DamageAtOrAbove =>
         /\ recommendedRoute = "Standard Processing"
         /\ Contains(reasoning, "exceeds fast-track threshold of #25,000")
    /\ Damage.kind = "bad" =>
         /\ recommendedRoute = "Standard Processing"
         /\ reasoning = UnparseableReasoning

\* C5 as claimed: the decision on every present (not None) damage string.
C5_Original ==
    Routed /\ NoKeyword /\ missing_fields = <<>> /\ F_estimatedDamage.some => FastTrackDecision

\* C5: without keywords and with nothing missing, a damage that is present and
\* not the empty string is fast-tracked if and only if it parses to a number
\* strictly below 25000; at 25000 or above it goes to Standard Processing citing
\* the threshold, and an unparseable one to Standard Processing noting that.
C5_FastTrack ==
    Routed /\ NoKeyword /\ missing_fields = <<>> /\ F_estimatedDamage.some /\ F_estimatedDamage.s # ""
        => FastTrackDecision

\* The threshold itself is not fast-tracked.
C5_Witness ==
    /\ Routed /\ NoKeyword /\ missing_fields = <<>>
    /\ F_estimatedDamage = Str("25000")
    /\ recommendedRoute = "Standard Processing"
    /\ reasoning = "Estimated damage #25,000 exceeds fast-track threshold of #25,000. "
                     \o "All mandatory fields are present. Routed to standard processing"

TierFourOutcome ==
    \/ recommendedRoute = "Fast-track" /\ Contains(reasoning, "is below fast-track threshold")
    \/ recommendedRoute = "Standard Processing" /\ Contains(reasoning, "exceeds fast-track threshold")
    \/ recommendedRoute = "Standard Processing" /\ reasoning = UnparseableReasoning

\* C6 as claimed: the default reasoning only for an absent (None) damage, a tier-4
\* outcome for every present one.
C6_Original ==
    /\ Routed /\ reasoning = DefaultReasoning =>
         NoKeyword /\ missing_fields = <<>> /\ F_estimatedDamage = None
    /\ Routed /\ NoKeyword /\ missing_fields = <<>> /\ F_estimatedDamage.some => TierFourOutcome

\* C6: the default reasoning is returned (with Standard Processing) only without
\* keywords, with nothing missing and with a damage that is absent or the empty
\* string; a damage that is a non-empty string gets a tier-4 outcome instead.
C6_DefaultTier ==
    /\ Routed /\ reasoning = DefaultReasoning =>
         /\ recommendedRoute = "Standard Processing"
         /\ NoKeyword /\ missing_fields = <<>>
         /\ F_estimatedDamage \in { None, Str("") }
    /\ Routed /\ NoKeyword /\ missing_fields = <<>> /\ F_estimatedDamage.some /\ F_estimatedDamage.s # ""
         => TierFourOutcome

\* The default tier taken for an absent damage.
C6_Witness ==
    /\ Routed /\ NoKeyword /\ missing_fields = <<>>
    /\ F_estimatedDamage = None
    /\ recommendedRoute = "Standard Processing"
    /\ reasoning = DefaultReasoning

\* The mandatory slots in schema order, with their qualified names.
Mandatory(section, key, name) == [section |-> section, key |-> key, name |-> name]

SchemaOrder ==
    << Mandatory("policyInformation", "policyNumber", "policyInformation.policyNumber"),
       Mandatory("policyInformation", "policyholderName", "policyInformation.policyholderName"),
       Mandatory("policyInformation", "effectiveDates", "policyInformation.effectiveDates"),
       Mandatory("incidentInformation", "date", "incidentInformation.date"),
       Mandatory("incidentInformation", "time", "incidentInformation.time"),
       Mandatory("incidentInformation", "location", "incidentInformation.location"),
       Mandatory("incidentInformation", "description", "incidentInformation.description"),
       Mandatory("involvedParties", "claimant", "involvedParties.claimant"),
       Mandatory("involvedParties", "contactDetails", "involvedParties.contactDetails"),
       Mandatory("assetDetails", "assetType", "assetDetails.assetType"),
       Mandatory("assetDetails", "assetId", "assetDetails.assetId"),
       Mandatory("assetDetails", "estimatedDamage", "assetDetails.estimatedDamage"),
       Mandatory("otherFields", "claimType", "otherFields.claimType"),
       Mandatory("otherFields", "initialEstimate", "otherFields.initialEstimate") >>

SchemaIndex(name) == CHOOSE j \in 1..Len(SchemaOrder) : SchemaOrder[j].name = name

\* Absent, empty or whitespace only.
Blank(v) == ~v.some \/ v.s \in BlankStrings

InMissing(name) == \E i \in 1..Len(missing_fields) : missing_fields[i] = name

\* C7: the missing list holds the qualified name of a mandatory slot exactly when
\* the slot is absent, empty or whitespace only; it holds nothing else, nothing
\* twice, and its entries follow the schema order.
C7_MissingDetection ==
    Validated =>
        /\ \A i \in 1..Len(missing_fields) :
             \E j \in 1..Len(SchemaOrder) : SchemaOrder[j].name = missing_fields[i]
        /\ \A i, k \in 1..Len(missing_fields) :
             i < k => SchemaIndex(missing_fields[i]) < SchemaIndex(missing_fields[k])
        /\ \A j \in 1..Len(SchemaOrder) :
             InMissing(SchemaOrder[j].name)
               <=> Blank(extracted_fields[SchemaOrder[j].section][SchemaOrder[j].key])

\* A whitespace-only mandatory slot is reported, an absent optional slot is not.
C7_Witness ==
    /\ pc = "validated"
    /\ extracted_fields.policyInformation.effectiveDates = Str(" \t")
    /\ extracted_fields.involvedParties.thirdParties = None
    /\ missing_fields = << "policyInformation.effectiveDates" >>

\* C8: for the all-absent field set validate reports the 14 mandatory slots, each
\* once (thirdParties and attachments are not among them), and no inconsistency.
C8_AllAbsent ==
    Validated /\ extracted_fields = get_empty_fields =>
        /\ missing_fields =
             << "policyInformation.policyNumber", "policyInformation.policyholderName",
                "policyInformation.effectiveDates", "incidentInformation.date",
                "incidentInformation.time", "incidentInformation.location",
                "incidentInformation.description", "involvedParties.claimant",
                "involvedParties.contactDetails", "assetDetails.assetType",
                "assetDetails.assetId", "assetDetails.estimatedDamage",
                "otherFields.claimType", "otherFields.initialEstimate" >>
        /\ inconsistencies = <<>>

C8_Witness ==
    /\ pc = "validated"
    /\ extracted_fields = get_empty_fields
    /\ Len(missing_fields) = 14
    /\ ~InMissing("involvedParties.thirdParties")
    /\ ~InMissing("otherFields.attachments")

DiscrepancyReported ==
    \E i \in 1..Len(inconsistencies) : StartsWith(inconsistencies[i], "Large discrepancy")

AbsDiff(a, b) == IF a > b THEN a - b ELSE b - a

Max(a, b) == IF a > b THEN a ELSE b

\* Both amounts are present, parse to finite numbers above zero, and differ by
\* more than half of the larger one.
LargeDiscrepancy ==
    /\ F_estimatedDamage.some /\ F_initialEstimate.some
    /\ Damage.kind = "num" /\ Estimate.kind = "num"
    /\ Damage.hundredths > 0 /\ Estimate.hundredths > 0
    /\ 2 * AbsDiff(Damage.hundredths, Estimate.hundredths) > Max(Damage.hundredths, Estimate.hundredths)

\* C9: validate reports a large discrepancy exactly when estimated damage and
\* initial estimate both parse to numbers above zero and
\* |damage - estimate| / max(damage, estimate) > 0.5; with an infinite amount the
\* quotient is not a number and nothing is reported.
C9_Discrepancy == Validated => (DiscrepancyReported <=> LargeDiscrepancy)

\* 100,000 against 40,000 is reported, with both amounts in the message.
C9_Witness ==
    /\ pc = "validated"
    /\ F_estimatedDamage = Str("100,000")
    /\ F_initialEstimate = Str("40,000")
    /\ Reported("Large discrepancy between estimated damage (#100,000) and initial estimate (#40,000)")

DamageNegative ==
    \/ Damage.kind = "num" /\ Damage.hundredths < 0
    \/ Damage.kind = "inf" /\ Damage.hundredths < 0

DamageMessages ==
    { i \in 1..Len(inconsistencies) :
        inconsistencies[i] \in { "Estimated damage amount is negative",
                                 "Estimated damage amount is zero",
                                 "Estimated damage is not a valid number" } }

NonPositiveCheck ==
    /\ Reported("Estimated damage amount is negative") <=> DamageNegative
    /\ Reported("Estimated damage amount is zero") <=> Damage.kind = "num" /\ Damage.hundredths = 0
    /\ Reported("Estimated damage is not a valid number") <=> Damage.kind = "bad"
    /\ Cardinality(DamageMessages) <= 1

\* C10 as claimed: the three messages on every present (not None) damage string.
C10_Original == Validated /\ F_estimatedDamage.some => NonPositiveCheck

\* C10: for a damage that is present and not the empty string, validate reports
\* 'negative' exactly when it parses below zero, 'zero' exactly when it parses to
\* zero, 'not a valid number' exactly when it does not parse, and at most one of
\* the three; for an absent or empty damage it reports none of them.
C10_NonPositive ==
    /\ Validated /\ F_estimatedDamage.some /\ F_estimatedDamage.s # "" => NonPositiveCheck
    /\ Validated /\ F_estimatedDamage \in { None, Str("") } => DamageMessages = {}

\* A whitespace-only damage is reported as not a valid number.
C10_Witness ==
    /\ pc = "validated"
    /\ F_estimatedDamage = Str("   ")
    /\ Reported("Estimated damage is not a valid number")

F_date == extracted_fields.incidentInformation.date

F_policyNumber == extracted_fields.policyInformation.policyNumber

\* The first of the four formats that accepts the incident date gives a day
\* after the day of the clock reading.
IncidentInFuture ==
    LET e == Entry(DateTable, F_date)
    IN /\ F_date.some /\ e.ok
       /\ \/ e.y > now.y
          \/ e.y = now.y /\ e.m > now.m
          \/ e.y = now.y /\ e.m = now.m /\ e.d > now.d

PolicyTooShort == Entry(PolicyTable, F_policyNumber).trimmed < 3

\* C12 as claimed: every present policy number whose trimmed length is 0, 1 or 2
\* is reported, and no other.
C12_Original ==
    Validated /\ F_policyNumber.some =>
        (Reported("Policy number appears too short") <=> PolicyTooShort)

\* C12: a policy number that is present and not the empty string is reported as
\* too short exactly when its trimmed length is below 3 (0 for a whitespace-only
\* one); an absent or empty policy number is never reported.
C12_PolicyNumber ==
    /\ Validated /\ F_policyNumber.some /\ F_policyNumber.s # "" =>
         (Reported("Policy number appears too short") <=> PolicyTooShort)
    /\ Validated /\ F_policyNumber \in { None, Str("") } =>
         ~Reported("Policy number appears too short")

\* " AB " is four characters long, two after trimming: reported.
C12_Witness ==
    /\ pc = "validated"
    /\ F_policyNumber = Str(" AB ")
    /\ Reported("Policy number appears too short")

\* C13: for every field set (values absent, empty, blank, with a malformed date
\* or a malformed amount) validate returns its two lists, no exception leaving
\* it, and the field set it was given is the same afterwards: no slot added,
\* removed or rewritten.
C13_ValidateFrame ==
    [][pc = "extracted" =>
         /\ pc' = "validated"
         /\ extracted_fields' = extracted_fields
         /\ DOMAIN missing_fields' = 1..Len(missing_fields')
         /\ DOMAIN inconsistencies' = 1..Len(inconsistencies')]_vars

\* validate has returned on a field set with a date no format parses and an
\* amount padded with blanks: the field set still holds both as they were.
C13_Witness ==
    /\ pc = "validated"
    /\ F_date = Str("garbage")
    /\ F_estimatedDamage = Str(" Rs 4500 ")
    /\ inconsistencies = <<>>

\* extract_fields has returned.
Extracted == pc # "text"

\* The five sections and their 16 slots.
Shape ==
    [ policyInformation   |-> {"policyNumber", "policyholderName", "effectiveDates"},
      incidentInformation |-> {"date", "time", "location", "description"},
      involvedParties     |-> {"claimant", "thirdParties", "contactDetails"},
      assetDetails        |-> {"assetType", "assetId", "estimatedDamage"},
      otherFields         |-> {"claimType", "attachments", "initialEstimate"} ]

\* C14: for every raw text, by the rule engine as by the LLM adapter with any
\* JSON answer, the field set extract_fields returns has exactly the five
\* sections with exactly their 16 slots: no key added, none dropped.
C14_SchemaShape ==
    Extracted =>
        /\ DOMAIN extracted_fields = DOMAIN Shape
        /\ \A section \in DOMAIN Shape : DOMAIN extracted_fields[section] = Shape[section]

\* The adapter has returned on an answer with a field and a section the schema
\* does not have: the policy number is taken, the rest is left out.
C14_Witness ==
    /\ pc = "extracted"
    /\ api_key # ""
    /\ llm_response = ReplyJson(ExtraKeysResponse)
    /\ F_policyNumber = Str("POL-9")

\* The values of the 16 slots of the extracted field set.
FieldValues ==
    UNION { { extracted_fields[section][key] : key \in Shape[section] } : section \in DOMAIN Shape }

\* A value is None or a str that is not empty and has no whitespace around it.
AbsentOrTrimmed(value) ==
    \/ ~value.some
    \/ IsStr(value) /\ value.s # "" /\ Strip(value.s) = value.s

\* extract_fields has returned what the rule engine made of the raw text.
ByRuleEngine == Extracted /\ api_key = ""

\* C15: for every raw text the rule engine returns a field set in which each of
\* the 16 values is None or a str that is not empty and carries no leading or
\* trailing whitespace.  The statement is violated: a label followed by a line of
\* blanks or of commas leaves the empty str in the slot.
C15_RuleEngineStrings ==
    ByRuleEngine => \A value \in FieldValues : AbsentOrTrimmed(value)

\* extract_fields has returned what the LLM adapter returned: the attempt did not raise.
ByAdapter ==
    /\ Extracted
    /\ api_key # ""
    /\ _extract_with_openai(raw_text, llm_response).raised = ""

\* C16: whenever the LLM adapter returns a result, each of the 16 values is None
\* or a str, whatever JSON types the answer used, and neither validation nor
\* routing of that field set raises.  The statement is violated: the values of
\* the answer are stored as json.loads gave them, and route raises
\* AttributeError on a description or claim type that is a number or a list.
C16_AdapterCoerces ==
    ByAdapter =>
        /\ \A value \in FieldValues : ~value.some \/ IsStr(value)
        /\ ~RouteRaised

\* The table entry of the answer drawn for the run.
AnswerOf(reply) == CHOOSE a \in LLMTable : a.reply = reply

\* A key is configured and the LLM attempt failed: no answer, an answer that is
\* not JSON, or JSON that is not an object of section objects.
AttemptFailed == api_key # "" /\ AnswerOf(llm_response).fails

\* C17: when a key is configured and the LLM attempt fails in any way,
\* extract_fields returns exactly what the rule engine makes of the same raw
\* text.  The statement is violated: an answer that is valid JSON but not an
\* object of section objects ([], "hello", {"policyInformation": "oops"}) raises
\* nothing in the merge loop, and extract_fields returns the all-None field set.
C17_Fallback ==
    (Extracted /\ AttemptFailed) => extracted_fields = _extract_with_regex(raw_text)

\* extract_fields has returned in the current run of the pipeline.
FieldsExtracted == pc \in {"extracted", "validated", "routed", "done"}

InputError(doc) ==
    \E text \in { extract(doc) } :
        \/ text.raised # ""
        \/ text.raised = "" /\ \A i \in 1..Len(text.text) : IsSpace(Char(text.text, i))

\* The run ended at step 1.
Aborted == pc = "failed" /\ failure.step = 1

\* The results of extraction, validation and routing, and the claim store.
outcome == <<extracted_fields, missing_fields, inconsistencies, recommendedRoute, reasoning,
             processed_claims>>

\* C19: a submission whose text extraction fails (file not found, unsupported
\* format, unreadable content) or gives empty or whitespace-only text ends as a
\* failure at step 1 with no field extracted, nothing validated or routed and
\* the claim store as it was; and after such a failure nothing changes any of
\* these until the next submission.
C19_InputErrorAborts ==
    [][ /\ (submissions' # submissions /\ InputError(document')) =>
               (Aborted' /\ outcome' = outcome)
        /\ (Aborted /\ submissions' = submissions) =>
               (Aborted' /\ outcome' = outcome) ]_vars

\* A file of blanks was refused after a claim had been stored: the store still
\* holds that claim and no other.
C19_Witness ==
    /\ Aborted
    /\ document.name = "blank.txt"
    /\ failure = Failure(1, "ValueError")
    /\ submissions = 2
    /\ Cardinality(DOMAIN processed_claims) = 1

\* C20: a record put into the claim store stays there with the same content
\* for ever: no later run, stored or failed, and no listing changes, replaces or
\* removes it.  The statement is violated: the key is the first 8 hex digits of
\* a random uuid and processed_claims[claim_id] = result does not look whether
\* the key is taken, so a run that draws the id of a stored claim replaces it.
C20_RecordsImmutable ==
    [][ \A id \in DOMAIN processed_claims :
            /\ id \in DOMAIN processed_claims'
            /\ processed_claims'[id] = processed_claims[id] ]_vars

\* The run of thread c has stored its record and returned it.
Completed(c) == callers[c].pc = "done"

\* The record the run of thread c returned is in the store under the id of the run.
Retrievable(c) ==
    /\ callers[c].claim_id \in DOMAIN processed_claims
    /\ processed_claims[callers[c].claim_id] = callers[c].result

\* C21: in every interleaving of runs in several threads, the record of every
\* run that completed is in the claim store under the id of that run: none is
\* lost or overwritten.  The statement is violated: the ids are drawn at random
\* with nothing that keeps them apart, and a run that draws the id of another
\* puts its record in the place of the other's.
C21_NoLostInserts == \A c \in Callers : Completed(c) => Retrievable(c)

\* An insert under an id the store does not have adds the record of the run and
\* leaves every record of the store as it was, whatever the other threads are at.
InsertOfFreshId ==
    [][ \A c \in Callers :
            (/\ callers[c].pc = "built"
             /\ callers'[c].pc = "done"
             /\ callers[c].claim_id \notin DOMAIN processed_claims) =>
                /\ DOMAIN processed_claims' = DOMAIN processed_claims \cup {callers[c].claim_id}
                /\ processed_claims'[callers[c].claim_id] = callers[c].result
                /\ \A id \in DOMAIN processed_claims : processed_claims'[id] = processed_claims[id]
      ]_vars

\* Two runs overlapped with different ids and both records are in the store.
BothStored ==
    /\ \A c \in Callers : Completed(c) /\ Retrievable(c)
    /\ Cardinality(DOMAIN processed_claims) = 2
    /\ callers["t1"].result.processedAt = callers["t2"].result.processedAt

\* The list holds every record of the claim store exactly once and nothing else.
SnapshotOf(list, claims) ==
    /\ Len(list) = Cardinality(DOMAIN claims)
    /\ \A id \in DOMAIN claims : Cardinality({ i \in 1..Len(list) : list[i] = claims[id] }) = 1

\* The list goes from the latest processedAt to the oldest.
LatestFirst(list) ==
    \A i, j \in 1..Len(list) : i < j => list[i].processedAt >= list[j].processedAt

\* C22: each answer of get_claims holds every record that is in the store at
\* the moment of the call exactly once, also while runs in other threads are
\* about to insert theirs, ordered by processedAt from the latest to the oldest.
C22_ListingSnapshot ==
    [][ claims_list' # claims_list =>
            /\ SnapshotOf(claims_list', processed_claims)
            /\ LatestFirst(claims_list') ]_vars

\* A listing answered while a run in another thread has its record built and
\* not yet stored: two records, the later one stored first.
C22_Witness ==
    /\ Len(claims_list) = 2
    /\ claims_list[1].processedAt > claims_list[2].processedAt
    /\ key_order[1] = claims_list[1].claimId
    /\ \E c \in Callers : callers[c].pc = "built"
    /\ SnapshotOf(claims_list, processed_claims)

\* The preview the text is to have: the text itself up to 500 characters, the
\* first 500 and the marker beyond.
IsPreviewOf(preview, text) ==
    /\ Len(text) <= 500 => preview = text
    /\ Len(text) > 500 =>
          /\ Len(preview) = 503
          /\ SubSeq(preview, 1, 500) = SubSeq(text, 1, 500)
          /\ SubSeq(preview, 501, 503) = "..."
    /\ Len(preview) <= 503

\* C23: the preview of every claim record is the first 500 characters of the
\* raw text, followed by "..." exactly when the text has more than 500
\* characters; a text of 500 characters or less is stored whole, and no
\* preview has more than 503 characters.
C23_Preview ==
    pc = "done" => IsPreviewOf(processed_claims[claim_id].rawTextPreview, raw_text)

\* A record of a text of exactly 500 characters: the whole text, no marker.
C23_Witness ==
    /\ pc = "done"
    /\ Len(raw_text) = 500
    /\ processed_claims[claim_id].rawTextPreview = raw_text

\* The stages of a run in the order of _run_pipeline: the text extracted, the
\* fields extracted, validated, routed, the record stored.
Stage == [text |-> 1, extracted |-> 2, validated |-> 3, routed |-> 4, done |-> 5]

\* A step of the run under way: it stays where it is, completes the next stage,
\* or leaves a stage not yet completed with an exception.
StepsForward ==
    \/ pc' = pc
    \/ pc \in DOMAIN Stage /\ pc' \in DOMAIN Stage /\ Stage[pc'] = Stage[pc] + 1
    \/ pc \in {"text", "extracted", "validated", "routed"} /\ pc' = "failed"

\* A run starts when none is under way, with step 1.
StartsRun == pc \in {"idle", "done", "failed"} /\ pc' \in {"text", "failed"}

\* What validation was given and gave goes to the router, and what the router
\* was given and gave goes into the record.
HandsOn ==
    /\ pc = "extracted" /\ pc' = "validated" =>
          /\ extracted_fields' = extracted_fields
          /\ \E checked \in { validate(extracted_fields, now) } :
                missing_fields' = checked.missing /\ inconsistencies' = checked.inconsistencies
    /\ pc = "validated" /\ pc' = "routed" =>
          /\ <<extracted_fields', missing_fields', inconsistencies'>> =
                <<extracted_fields, missing_fields, inconsistencies>>
          /\ \E routed \in { route(extracted_fields, missing_fields) } :
                recommendedRoute' = routed.route /\ reasoning' = routed.reasoning
    /\ pc = "routed" /\ pc' = "done" =>
          \E record \in { processed_claims'[claim_id] } :
              /\ record.extractedFields = extracted_fields
              /\ record.missingFields = missing_fields
              /\ record.inconsistencies = inconsistencies
              /\ record.recommendedRoute = recommendedRoute
              /\ record.reasoning = reasoning

\* C24: for each document the pipeline goes through text extraction, field
\* extraction, validation, routing and the storing of the record in this
\* order, each stage once and none again after a later one; the router is given
\* the field set the validator was given and the missing list it returned, and
\* these values are the ones in the record.
C24_ForwardOnly ==
    [][ /\ IF submissions' = submissions THEN StepsForward ELSE StartsRun
        /\ HandsOn ]_vars

\* The second run of the application has gone through all stages and its record
\* holds what validation and routing gave.
C24_Witness ==
    /\ pc = "done"
    /\ submissions = 2
    /\ processed_claims[claim_id].processedAt = 2
    /\ processed_claims[claim_id].missingFields = missing_fields
    /\ missing_fields # <<>>
    /\ processed_claims[claim_id].recommendedRoute = "Manual Review"

F_policyholderName == extracted_fields.policyInformation.policyholderName

F_claimant == extracted_fields.involvedParties.claimant

\* A value is there: neither None nor the empty str.
Present(value) == Truthy(value)

\* C25: in the result of the rule engine the claimant of a text without a
\* "reported by" line is the policyholder name extracted; and for every raw
\* text, a result with a policyholder name has a claimant too.
C25_ClaimantDefault ==
    ByRuleEngine =>
        /\ raw_text \notin ReportedByTexts => F_claimant = F_policyholderName
        /\ Present(F_policyholderName) => Present(F_claimant)

\* A text with a policyholder and no "reported by" line: the claimant is the
\* policyholder.
C25_Witness ==
    /\ ByRuleEngine
    /\ raw_text \notin ReportedByTexts
    /\ F_policyholderName = Str("Rajesh Kumar")
    /\ F_claimant = Str("Rajesh Kumar")

\* The slots the router reads.
RoutedOn == {"description", "claimType", "estimatedDamage"}

\* The field set with these three slots of `fields` and every other slot of `rest`.
Recast(fields, rest) ==
    [ section \in DOMAIN rest |->
        [ key \in DOMAIN rest[section] |->
            IF key \in RoutedOn THEN fields[section][key] ELSE rest[section][key] ] ]

\* A complete field set in which validation finds a future incident date, a
\* policy number too short and an initial estimate far from any damage amount.
DoubtfulFields ==
    With(With(With(CompleteFields, "incidentInformation", "date", Str("01/02/2030")),
              "policyInformation", "policyNumber", Str("AB")),
         "otherFields", "initialEstimate", Str("80,000"))

\* The other 13 slots a field set is compared with: all absent, all filled,
\* filled with what validation objects to, all blank.
RestChoices ==
    { get_empty_fields, CompleteFields, DoubtfulFields,
      [ section \in DOMAIN Shape |-> [ key \in Shape[section] |-> Str("  ") ] ] }

\* C26: two field sets with the same description, claim type and estimated
\* damage, routed with the same missing list, get the same route and the same
\* reasoning, whatever their other fields and whatever inconsistencies
\* validation found: the route of the field set validated is the route of the
\* field sets that have its three slots and other values in all the others.
C26_RouteIgnoresRest ==
    Routed =>
        \A rest \in RestChoices :
            \E routed \in { route(Recast(extracted_fields, rest), missing_fields) } :
                routed.route = recommendedRoute /\ routed.reasoning = reasoning

\* A complete claim with a negative damage amount: validation reports the
\* amount, and the claim goes to Fast-track.
C26_Witness ==
    /\ Routed
    /\ missing_fields = <<>>
    /\ F_estimatedDamage = Str("-100")
    /\ \E i \in 1..Len(inconsistencies) : inconsistencies[i] = "Estimated damage amount is negative"
    /\ recommendedRoute = "Fast-track"

\* Every value of the field set is None or a str.
StringsOrAbsent == \A value \in FieldValues : ~value.some \/ IsStr(value)

\* C27: when the router is given the missing list validation made of the same
\* field set, and the values are strings or absent, a claim routed to Standard
\* Processing has the reasoning of the damage tier (the amount exceeds the
\* threshold, or could not be parsed), never that of the default tier: an
\* absent or blank damage is reported missing and routed to a higher tier.
C27_DefaultUnreachable ==
    (Routed /\ StringsOrAbsent /\ recommendedRoute = "Standard Processing") =>
        /\ reasoning # DefaultReasoning
        /\ \/ Contains(reasoning, "exceeds fast-track threshold")
           \/ reasoning = UnparseableReasoning
        /\ Truthy(F_estimatedDamage)
        /\ missing_fields = <<>>

\* A complete claim whose damage is not a number: Standard Processing, by the
\* damage tier.
C27_Witness ==
    /\ Routed
    /\ missing_fields = <<>>
    /\ F_estimatedDamage = Str("abc")
    /\ recommendedRoute = "Standard Processing"
    /\ reasoning = UnparseableReasoning

====
